---- MODULE Spec2Model ----
(***************************************************************************)
(* A model of the regular-expression based JavaScript structure parser     *)
(* (deep-fol-backend/codeParser.js and its later revision with import and  *)
(* export extraction).  Texts are sequences of one-character strings with  *)
(* 0-based offsets as in JavaScript; every regular expression is modelled  *)
(* by an operator that computes the match the backtracking engine returns. *)
(***************************************************************************)
EXTENDS Integers, Sequences, FiniteSets, TLC

VARIABLES
  impl,         \* which revision of parseJavaScriptCode is loaded
  corpus,       \* the family of input files this run draws from
  callsLeft,    \* how many more parse calls this run makes
  pc,           \* position inside parseJavaScriptCode
  fileContent,  \* argument of the current call
  filePath,     \* argument of the current call
  elements,     \* the local array of structural elements
  spans,        \* for each element, the offsets [start, finish] it was cut from
  imports,      \* the local array of import edges
  exports,      \* the local array of export edges
  lastIndex,    \* lastIndex of the module-level /g regular expressions
  result,       \* what the current call gave back to its caller
  server,       \* the request the HTTP server is handling and its response
  qdrant,       \* the points of the collection code-snippets
  now,          \* what Date.now() returns
  pending,      \* the requests to /index-snippet that await their embedding
  prev          \* content, path and result of the previous completed call

vars == <<impl, corpus, callsLeft, pc, fileContent, filePath, elements, spans,
          imports, exports, lastIndex, result, server, qdrant, now, pending, prev>>

-----------------------------------------------------------------------------
(* Strings *)

Chars(s) == [i \in 1..Len(s) |-> SubSeq(s, i, i)]

\* null and undefined, for fields whose non-null values are never empty
Null == <<>>

\* \s
WhiteSpace == {" ", "\t", "\n", "\r", "\f"}
\* what . and [^\r\n] leave out, and what ^ follows under the m flag
LineTerm == {"\n", "\r"}
\* [A-Za-z_]
IdStart ==
  {"a","b","c","d","e","f","g","h","i","j","k","l","m",
   "n","o","p","q","r","s","t","u","v","w","x","y","z",
   "A","B","C","D","E","F","G","H","I","J","K","L","M",
   "N","O","P","Q","R","S","T","U","V","W","X","Y","Z","_"}
\* [A-Za-z0-9_], which is also \w
IdChars == IdStart \cup {"0","1","2","3","4","5","6","7","8","9"}
\* [A-Za-z0-9_$]
IdCharsD == IdChars \cup {"$"}
\* [A-Za-z0-9_.]
QualChars == IdChars \cup {"."}

MinOf(a, b) == IF a < b THEN a ELSE b
MaxOf(a, b) == IF a > b THEN a ELSE b
Least(S) == CHOOSE x \in S : \A y \in S : x <= y
LeastOr(S, none) == IF S = {} THEN none ELSE Least(S)

\* t[i], "" standing for undefined
At(t, i) == IF i >= 0 /\ i < Len(t) THEN t[i + 1] ELSE ""

\* t.substring(a, b)
Substring(t, a, b) ==
  SubSeq(t, MaxOf(0, MinOf(MinOf(a, b), Len(t))) + 1, MaxOf(0, MinOf(MaxOf(a, b), Len(t))))

\* t.substring(a)
SubstringFrom(t, a) == Substring(t, a, Len(t))

\* t.startsWith(w, i): the end offset of w at i, or -1
Lit(t, i, w) ==
  IF i >= 0 /\ i + Len(w) <= Len(t) /\ \A k \in 1..Len(w) : t[i + k] = w[k]
  THEN i + Len(w) ELSE -1

\* t.indexOf(w, from)
IndexOfFrom(t, w, from) ==
  LeastOr({k \in MaxOf(from, 0)..(Len(t) - Len(w)) : Lit(t, k, w) # -1}, -1)

\* t.indexOf(w)
IndexOf(t, w) == IndexOfFrom(t, w, 0)

\* t.includes(w)
Includes(t, w) == IndexOf(t, w) # -1

\* [S]* taken greedily from i, for a character class S: its end
RunOf(t, i, S) ==
  IF i < 0 THEN i ELSE LeastOr({j \in i..Len(t) : j = Len(t) \/ t[j + 1] \notin S}, i)

\* \s* taken greedily from i
SkipWs(t, i) == RunOf(t, i, WhiteSpace)

\* \s+ taken greedily from i, or -1
Ws1(t, i) == IF At(t, i) \in WhiteSpace THEN SkipWs(t, i) ELSE -1

\* the start of the white space that ends at j
SkipWsBack(t, j) ==
  j - LeastOr({d \in 0..j : d = j \/ t[j - d] \notin WhiteSpace}, 0)

\* t.trim()
Trim(t) ==
  IF SkipWs(t, 0) >= SkipWsBack(t, Len(t)) THEN <<>>
  ELSE SubSeq(t, SkipWs(t, 0) + 1, SkipWsBack(t, Len(t)))

\* t.split(sep), sep one character
RECURSIVE SplitFrom(_, _, _)
SplitFrom(t, sep, from) ==
  LET k == IndexOfFrom(t, <<sep>>, from)
  IN IF k = -1 THEN <<Substring(t, from, Len(t))>>
     ELSE <<Substring(t, from, k)>> \o SplitFrom(t, sep, k + 1)

Split(t, sep) == SplitFrom(t, sep, 0)

\* ^ under the m flag
AtLineStart(t, i) == i = 0 \/ At(t, i - 1) \in LineTerm

\* [A-Za-z_][S]* at i, for a character class S: its end, or -1
Ident(t, i, S) == IF At(t, i) \in IdStart THEN RunOf(t, i + 1, S) ELSE -1

\* the literal s at i: its end, or -1
Word(t, i, s) == Lit(t, i, Chars(s))

-----------------------------------------------------------------------------
(* findClosingBrace, getLineNumber, summarizeComment *)

\* the loop of findClosingBrace from offset i with the running braceLevel
RECURSIVE BraceScan(_, _, _)
BraceScan(text, i, braceLevel) ==
  IF i >= Len(text) THEN -1
  ELSE IF text[i + 1] = "{" THEN BraceScan(text, i + 1, braceLevel + 1)
  ELSE IF text[i + 1] = "}"
       THEN IF braceLevel - 1 = 0 THEN i ELSE BraceScan(text, i + 1, braceLevel - 1)
  ELSE BraceScan(text, i + 1, braceLevel)

\* a brace matcher that does not count depth: the first closing brace
FirstClosingBrace(text, openBraceIndex) == IndexOfFrom(text, <<"}">>, openBraceIndex)

findClosingBrace(text, openBraceIndex) == BraceScan(text, openBraceIndex, 0)

\* the number of newlines before index, plus one
getLineNumber(content, index) ==
  Cardinality({k \in 1..MinOf(MaxOf(index, 0), Len(content)) : content[k] = "\n"}) + 1

SummaryLimit == 100

\* .replace(/^\s*\/\*\*!?/, '')
StripDocOpen(s) ==
  LET o == Word(s, SkipWs(s, 0), "/**")
  IN IF o = -1 THEN s
     ELSE IF At(s, o) = "!" THEN SubstringFrom(s, o + 1) ELSE SubstringFrom(s, o)

\* .replace(/\*\/\s*$/, '')
StripDocClose(s) ==
  LET e == SkipWsBack(s, Len(s))
  IN IF e >= 2 /\ Word(s, e - 2, "*/") # -1 THEN Substring(s, 0, e - 2) ELSE s

\* line.replace(/^\s*\*\s?/, '').trim()
CleanDocLine(line) ==
  LET w == SkipWs(line, 0)
  IN IF At(line, w) = "*"
     THEN Trim(SubstringFrom(line, IF At(line, w + 1) \in WhiteSpace THEN w + 2 ELSE w + 1))
     ELSE Trim(line)

\* line.replace(/^\s*\/\/\s?/, '').trim()
CleanSlashLine(line) ==
  LET o == Word(line, SkipWs(line, 0), "//")
  IN IF o = -1 THEN Trim(line)
     ELSE Trim(SubstringFrom(line, IF At(line, o) \in WhiteSpace THEN o + 1 ELSE o))

\* summary += (summary ? ' ' : '') + cleanedLine
Appended(summary, cleanedLine) ==
  IF summary = <<>> THEN cleanedLine ELSE summary \o <<" ">> \o cleanedLine

\* a heuristic that finds no summary long
NeverTooLong(summary) == FALSE

\* the first-sentence heuristic
TooLong(summary) == Len(summary) > SummaryLimit /\ Includes(summary, <<".">>)
FirstSentence(summary) == Substring(summary, 0, IndexOf(summary, <<".">>) + 1)

\* a loop over a documentation comment that goes on through the tag lines
NeverStopsAtTag(cleanedLine) == FALSE

\* whether the loop over a documentation comment stops at a line starting with @
StopsAtTag(cleanedLine) == At(cleanedLine, 0) = "@"

\* the for loop of the documentation-comment branch, from line k
RECURSIVE DocLoop(_, _, _)
DocLoop(lines, k, summary) ==
  IF k > Len(lines) THEN summary
  ELSE LET cleanedLine == CleanDocLine(lines[k])
       IN IF StopsAtTag(cleanedLine) THEN summary
          ELSE IF cleanedLine # <<>>
               THEN LET s2 == Appended(summary, cleanedLine)
                    IN IF TooLong(s2) THEN FirstSentence(s2)
                       ELSE DocLoop(lines, k + 1, s2)
          ELSE IF summary # <<>> THEN summary
          ELSE DocLoop(lines, k + 1, summary)

\* the for loop of the line-comment branch, from line k
RECURSIVE SlashLoop(_, _, _)
SlashLoop(lines, k, summary) ==
  IF k > Len(lines) THEN summary
  ELSE LET cleanedLine == CleanSlashLine(lines[k])
       IN IF cleanedLine # <<>>
          THEN LET s2 == Appended(summary, cleanedLine)
               IN IF TooLong(s2) THEN FirstSentence(s2)
                  ELSE SlashLoop(lines, k + 1, s2)
          ELSE IF summary # <<>> THEN summary
          ELSE SlashLoop(lines, k + 1, summary)

\* a summary, or Null
summarizeComment(jsdocComment, singleLineComments) ==
  IF jsdocComment # <<>>
  THEN Trim(DocLoop(Split(Trim(StripDocClose(StripDocOpen(jsdocComment))), "\n"), 1, <<>>))
  ELSE IF singleLineComments # <<>>
  THEN Trim(SlashLoop(Split(Trim(singleLineComments), "\n"), 1, <<>>))
  ELSE Null

-----------------------------------------------------------------------------
(* Regular expressions.  A match is a record with index (the offset it      *)
(* starts at), end (the offset after its last character) and the capture    *)
(* groups g1, g2, ...; an unset group is Null.  The operators that match a  *)
(* part of an expression return a record whose end is -1 when the part does *)
(* not match.                                                                *)

NoMatch == [index |-> -1]

\* the first alternative that matches
FirstOf(a, b) == IF a # -1 THEN a ELSE b

\* the match starting at i made of the parts r
AsMatch(i, r) == IF r.end = -1 THEN NoMatch ELSE [index |-> i] @@ r

\* the first of the candidates cands whose continuation hs matched
PickFirst(cands, hs) ==
  LET S == {k \in DOMAIN hs : hs[k].end # -1}
  IN IF S = {} THEN [end |-> -1] ELSE cands[Least(S)] @@ hs[Least(S)]

\* word\s+ at i: its end, or -1
Kw(t, i, s) == Ws1(t, Word(t, i, s))

\* (?:word\s+)? at i: where the rest goes on
OptWord(t, i, s) == FirstOf(Kw(t, i, s), i)

\* [^\r\n]* taken greedily from i
NotLineTermRun(t, i) ==
  IF i < 0 THEN i ELSE LeastOr({j \in i..Len(t) : j = Len(t) \/ t[j + 1] \in LineTerm}, i)

\* \/\/[^\r\n]*\r?\n at i: its end, or -1
SlashLine(t, i) ==
  LET x == NotLineTermRun(t, Word(t, i, "//"))
  IN IF At(t, x) = "\n" THEN x + 1
     ELSE IF At(t, x) = "\r" /\ At(t, x + 1) = "\n" THEN x + 2
     ELSE -1

\* (?:\/\/[^\r\n]*\r?\n)+ at i, greedy: its end, or -1
RECURSIVE SlashLines(_, _)
SlashLines(t, i) ==
  LET e == SlashLine(t, i)
  IN IF e = -1 THEN -1 ELSE FirstOf(SlashLines(t, e), e)

\* \s*\/\*\*([\s\S]*?)\*\/\s*^\s* with the comment opened before offset open:
\* for the "*/" at k and every later one after which a line starts, where the
\* header would begin, the lazy group taking the nearest first
RECURSIVE DocCandidates(_, _, _)
\* the first "*/" at or after k after which a line starts, or -1
NextDocClose(t, k) ==
  LeastOr({c \in MaxOf(k, 0)..(Len(t) - 2) :
             /\ Word(t, c, "*/") # -1
             /\ \E j \in (c + 2)..(SkipWs(t, c + 2) - 1) : t[j + 1] \in LineTerm}, -1)

DocCandidates(t, open, k) ==
  IF open = -1 \/ k = -1 THEN <<>>
  ELSE <<[q |-> SkipWs(t, k + 2), g1 |-> Substring(t, open, k), g2 |-> Null]>>
       \o DocCandidates(t, open, NextDocClose(t, k + 1))

\* \s*((?:\/\/[^\r\n]*\r?\n)+)^\s* with the comment lines from w to run
SlashCandidates(t, w, run) ==
  IF run = -1 THEN <<>>
  ELSE <<[q |-> SkipWs(t, run), g1 |-> Null, g2 |-> Substring(t, w, run)]>>

PrefixFrom(t, i, w) ==
  DocCandidates(t, Word(t, w, "/**"), NextDocClose(t, Word(t, w, "/**")))
  \o SlashCandidates(t, w, SlashLines(t, w))
  \o (IF AtLineStart(t, i) THEN <<[q |-> w, g1 |-> Null, g2 |-> Null]>> ELSE <<>>)

\* The part every structural expression starts with,
\*   (?:\s*\/\*\*([\s\S]*?)\*\/\s*|\s*((?:\/\/[^\r\n]*\r?\n)+))?^\s*
\* tried at offset i: in the order the engine tries them, the offsets q at
\* which the header can begin, each with the two comment groups.
PrefixCandidates(t, i) == PrefixFrom(t, i, SkipWs(t, i))

\* (?:export\s+)?(?:default\s+)?class\s+ at q: the offset of the name, or -1
ClassKeyword(t, q) == Kw(t, OptWord(t, OptWord(t, q, "export"), "default"), "class")

\* \s*\{ at n: its end, or -1
OpenBrace(t, n) == Lit(t, SkipWs(t, n), <<"{">>)

\* [A-Za-z_][A-Za-z0-9_.]+ at x: its end, or -1
QualifiedName(t, x) ==
  IF x >= 0 /\ At(t, x) \in IdStart /\ At(t, x + 1) \in QualChars
  THEN RunOf(t, x + 1, QualChars) ELSE -1

\* \s*(?:extends\s+[A-Za-z_][A-Za-z0-9_.]+)?\s*\{ at n: its end, or -1
ClassTail(t, n) ==
  IF n = -1 THEN -1
  ELSE FirstOf(OpenBrace(t, QualifiedName(t, Kw(t, SkipWs(t, n), "extends"))),
               OpenBrace(t, n))

\* the end of the class name: the longest [A-Za-z_][A-Za-z0-9_]* from n0
\* ending at or before n after which the rest of the header matches, or -1
RECURSIVE ClassNameEnd(_, _, _)
ClassNameEnd(t, n0, n) ==
  IF n0 = -1 \/ n <= n0 THEN -1
  ELSE IF ClassTail(t, n) # -1 THEN n
  ELSE ClassNameEnd(t, n0, n - 1)

ClassHeaderFrom(t, n0, n) == [end |-> ClassTail(t, n), g3 |-> Substring(t, n0, n)]

\* the header of CLASS_REGEX at q
ClassHeader(t, q) ==
  LET n0 == ClassKeyword(t, q)
  IN ClassHeaderFrom(t, n0, ClassNameEnd(t, n0, Ident(t, n0, IdChars)))

\* \s*\(([^)]*)\)\s*\{ at n: its end and the parameter list
ParamsAndBrace(t, n) ==
  LET o == SkipWs(t, n)
      c == IndexOfFrom(t, <<")">>, o + 1)
  IN IF At(t, o) = "(" /\ c # -1
     THEN [end |-> OpenBrace(t, c + 1), params |-> Substring(t, o + 1, c)]
     ELSE [end |-> -1, params |-> Null]

\* a function expression that asks for no `function` keyword
NoKeyword(t, q) == q

\* (?:export\s+)?(?:default\s+)?(?:async\s+)?function(?:\s*\*)?\s+ at q:
\* the offset of the name, or -1
FunctionKeyword(t, q) ==
  LET k == Word(t, OptWord(t, OptWord(t, OptWord(t, q, "export"), "default"), "async"),
                "function")
  IN IF k = -1 THEN -1
     ELSE FirstOf(Ws1(t, Lit(t, SkipWs(t, k), <<"*">>)), Ws1(t, k))

\* the name, the parameter list and the brace of a header, as groups a and b
NameAndParams(t, n0, n, pb, a, b) ==
  (a :> Substring(t, n0, n)) @@ (b :> pb.params) @@ [end |-> pb.end]

\* the header of FUNCTION_REGEX at q
FunctionHeader(t, q) ==
  LET n0 == FunctionKeyword(t, q)
      n == Ident(t, n0, IdChars)
  IN NameAndParams(t, n0, n, ParamsAndBrace(t, n), "g3", "g4")

\* (async\s+|get\s+|set\s+)? at b: the end of the group, or -1
ModifierGroup(t, b) ==
  FirstOf(Kw(t, b, "async"), FirstOf(Kw(t, b, "get"), Kw(t, b, "set")))

\* the second optional group after the first one ended at b: present, then absent
ModifierChoices(t, q, b, md) ==
  (IF md = -1 THEN <<>>
   ELSE <<[g3 |-> Substring(t, q, b), g4 |-> Substring(t, b, md), c |-> md]>>)
  \o <<[g3 |-> Substring(t, q, b), g4 |-> Null, c |-> b]>>

\* (static\s+)?(async\s+|get\s+|set\s+)? at q, each group tried present
\* before absent, the first one outermost: the groups and the offset c after
\* them; st is the end of static\s+ at q
MethodChoices(t, q, st) ==
  (IF st = -1 THEN <<>> ELSE ModifierChoices(t, q, st, ModifierGroup(t, st)))
  \o ModifierChoices(t, q, q, ModifierGroup(t, q))

\* (\*?\s*[A-Za-z_][A-Za-z0-9_]*|constructor) and the rest of the header at c
MethodRest(t, c) ==
  LET n == IF c = -1 THEN -1
           ELSE Ident(t, SkipWs(t, IF At(t, c) = "*" THEN c + 1 ELSE c), IdChars)
  IN NameAndParams(t, c, n, ParamsAndBrace(t, n), "g5", "g6")

MethodHeaderOf(t, choices) ==
  PickFirst(choices, [k \in DOMAIN choices |-> MethodRest(t, choices[k].c)])

\* the header of METHOD_REGEX at q
MethodHeader(t, q) == MethodHeaderOf(t, MethodChoices(t, q, Kw(t, q, "static")))

\* the header of the structural expression name at q
Header(name, t, q) ==
  CASE name = "CLASS_REGEX" -> ClassHeader(t, q)
    [] name = "FUNCTION_REGEX" -> FunctionHeader(t, q)
    [] name = "METHOD_REGEX" -> MethodHeader(t, q)

StructureAt(name, t, cands) ==
  PickFirst(cands, [k \in DOMAIN cands |-> Header(name, t, cands[k].q)])

\* \s*;? at e: its end
SemiEnd(t, e) == IF At(t, SkipWs(t, e)) = ";" THEN SkipWs(t, e) + 1 ELSE SkipWs(t, e)

\* the lazy .+? before the closing quote c, already holding the text up to
\* k: the offset of the closing quote, or -1
RECURSIVE LazyDots(_, _, _)
LazyDots(t, c, k) ==
  IF k >= Len(t) THEN -1
  ELSE IF t[k + 1] = c THEN k
  ELSE IF t[k + 1] \in LineTerm THEN -1
  ELSE LazyDots(t, c, k + 1)

\* (['"])(.+?)\1 at p: its end, the quote and the text between the quotes
QuotedAt(t, p) ==
  LET k == IF At(t, p) \in {"'", "\""} /\ At(t, p + 1) \notin LineTerm \cup {""}
           THEN LazyDots(t, At(t, p), p + 2) ELSE -1
  IN IF k = -1 THEN [end |-> -1, quote |-> Null, source |-> Null]
     ELSE [end |-> k + 1, quote |-> <<At(t, p)>>, source |-> Substring(t, p + 1, k)]

\* from\s+(['"])(.+?)\2 at p
FromClause(t, p) == QuotedAt(t, Kw(t, p, "from"))

\* (['"])(.+?)\N\s*;? at the end of an expression, as the groups a and b
Clause(t, fc, a, b) ==
  IF fc.end = -1 THEN [end |-> -1]
  ELSE (a :> fc.quote) @@ (b :> fc.source) @@ [end |-> SemiEnd(t, fc.end)]

\* (...) as group 1 from n0 to n1, then \s+from\s+(['"])(.+?)\2\s*;? after skip
\* more characters
ListAndFrom(t, n0, n1, skip) ==
  IF n1 = -1 THEN [end |-> -1]
  ELSE [g1 |-> Substring(t, n0, n1)]
       @@ Clause(t, FromClause(t, Ws1(t, n1 + skip)), "g2", "g3")

\* ([A-Za-z_][A-Za-z0-9_$]*)\s+from\s+(['"])(.+?)\2\s*;? at n0
Binding(t, n0) == ListAndFrom(t, n0, Ident(t, n0, IdCharsD), 0)

\* IMPORT_DEFAULT_REGEX after ^\s*
ImportDefaultAt(t, w) == Binding(t, Kw(t, w, "import"))

\* IMPORT_NAMESPACE_REGEX after ^\s*
ImportNamespaceAt(t, w) ==
  Binding(t, Kw(t, Ws1(t, Lit(t, Kw(t, w, "import"), <<"*">>)), "as"))

\* ([^}]+)\} after the opening brace that ends at b: the offset of }, or -1
BraceList(t, b) ==
  IF b # -1 /\ IndexOfFrom(t, <<"}">>, b) > b THEN IndexOfFrom(t, <<"}">>, b) ELSE -1

\* IMPORT_NAMED_REGEX after ^\s*
ImportNamedAt(t, w) ==
  LET b == Lit(t, Kw(t, w, "import"), <<"{">>)
  IN ListAndFrom(t, b, BraceList(t, b), 1)

\* IMPORT_SIDE_EFFECT_REGEX after ^\s*
ImportSideEffectAt(t, w) == Clause(t, QuotedAt(t, Kw(t, w, "import")), "g1", "g2")

\* group 1 from n0 to e and then \s*;?
GroupAndSemi(t, n0, e) ==
  IF e = -1 THEN [end |-> -1]
  ELSE [end |-> SemiEnd(t, e), g1 |-> Substring(t, n0, e)]

\* EXPORT_DEFAULT_IDENTIFIER_REGEX after ^\s*
ExportDefaultIdentifierAt(t, w) ==
  LET n0 == Kw(t, Kw(t, w, "export"), "default")
  IN GroupAndSemi(t, n0, Ident(t, n0, IdCharsD))

\* (?:\s+[A-Za-z_][A-Za-z0-9_$]*)? and the opening character open, after the
\* keyword that ends at f: its end, or -1
NamedOpen(t, f, open) ==
  FirstOf(Lit(t, Ident(t, Ws1(t, f), IdCharsD), open), Lit(t, f, open))

\* [a-zA-Z_$][\w$]*\( at n0: its end, or -1
CallOpen(t, n0) ==
  IF n0 >= 0 /\ At(t, n0) \in IdStart \cup {"$"}
  THEN Lit(t, RunOf(t, n0 + 1, IdCharsD), <<"(">>) ELSE -1

\* The group of EXPORT_DEFAULT_EXPRESSION_REGEX at n0: its end, or -1.  The
\* sixth character of its last class, the backquote, cannot be written in a
\* string of this module; no input text here holds one.
DefaultExpressionGroup(t, n0) ==
  FirstOf(NamedOpen(t, Word(t, n0, "function"), <<"(">>),
  FirstOf(NamedOpen(t, Word(t, n0, "class"), <<"{">>),
  FirstOf(Kw(t, n0, "new"),
  FirstOf(CallOpen(t, n0),
          IF At(t, n0) \in {"{", "(", "[", "\"", "'"} THEN n0 + 1 ELSE -1))))

\* EXPORT_DEFAULT_EXPRESSION_REGEX after ^\s*
ExportDefaultExpressionAt(t, w) ==
  LET n0 == Kw(t, Kw(t, w, "export"), "default")
  IN GroupAndSemi(t, n0, DefaultExpressionGroup(t, n0))

\* (const|let|var|function|class) at a: its end, or -1
DeclarationKind(t, a) ==
  FirstOf(Word(t, a, "const"),
  FirstOf(Word(t, a, "let"),
  FirstOf(Word(t, a, "var"),
  FirstOf(Word(t, a, "function"), Word(t, a, "class")))))

\* (const|let|var|function|class)\s+([A-Za-z_][A-Za-z0-9_$]*) at a, the kind
\* ending at k
DeclarationFrom(t, a, k) ==
  [end |-> Ident(t, Ws1(t, k), IdCharsD), g1 |-> Substring(t, a, k),
   g2 |-> Substring(t, Ws1(t, k), Ident(t, Ws1(t, k), IdCharsD))]

\* EXPORT_DECLARATION_REGEX after ^\s*
ExportDeclarationAt(t, w) ==
  LET a == OptWord(t, Kw(t, w, "export"), "async")
  IN DeclarationFrom(t, a, DeclarationKind(t, a))

\* (?:from\s+(['"])(.+?)\2)?\s*;? at s, after the \s*
OptionalFrom(t, s, fc) ==
  IF fc.end = -1 THEN [end |-> SemiEnd(t, s), g2 |-> Null, g3 |-> Null]
  ELSE Clause(t, fc, "g2", "g3")

\* \{([^}]+)\}\s*(?:from\s+(['"])(.+?)\2)?\s*;? with the list from b to c
NamedListFrom(t, b, c) ==
  IF c = -1 THEN [end |-> -1]
  ELSE [g1 |-> Substring(t, b, c)]
       @@ OptionalFrom(t, SkipWs(t, c + 1), FromClause(t, SkipWs(t, c + 1)))

\* EXPORT_NAMED_LIST_REGEX after ^\s*
ExportNamedListAt(t, w) ==
  LET b == Lit(t, Kw(t, w, "export"), <<"{">>)
  IN NamedListFrom(t, b, BraceList(t, b))

\* EXPORT_ALL_FROM_REGEX after ^\s*
ExportAllFromAt(t, w) ==
  Clause(t, FromClause(t, Ws1(t, Lit(t, Kw(t, w, "export"), <<"*">>))), "g1", "g2")

\* the loops over the import expressions, in the order they run
ImportRegexes ==
  <<"IMPORT_DEFAULT_REGEX", "IMPORT_NAMESPACE_REGEX", "IMPORT_NAMED_REGEX",
    "IMPORT_SIDE_EFFECT_REGEX">>
\* the loops over the export expressions, in the order they run
ExportRegexes ==
  <<"EXPORT_DEFAULT_IDENTIFIER_REGEX", "EXPORT_DEFAULT_EXPRESSION_REGEX",
    "EXPORT_DECLARATION_REGEX", "EXPORT_NAMED_LIST_REGEX", "EXPORT_ALL_FROM_REGEX">>
\* every module-level /g expression
Regexes ==
  {"CLASS_REGEX", "FUNCTION_REGEX", "METHOD_REGEX"}
  \cup {ImportRegexes[k] : k \in DOMAIN ImportRegexes}
  \cup {ExportRegexes[k] : k \in DOMAIN ExportRegexes}

\* an import or export expression after its ^\s*, at w
ModuleAt(name, t, w) ==
  CASE name = "IMPORT_DEFAULT_REGEX" -> ImportDefaultAt(t, w)
    [] name = "IMPORT_NAMESPACE_REGEX" -> ImportNamespaceAt(t, w)
    [] name = "IMPORT_NAMED_REGEX" -> ImportNamedAt(t, w)
    [] name = "IMPORT_SIDE_EFFECT_REGEX" -> ImportSideEffectAt(t, w)
    [] name = "EXPORT_DEFAULT_IDENTIFIER_REGEX" -> ExportDefaultIdentifierAt(t, w)
    [] name = "EXPORT_DEFAULT_EXPRESSION_REGEX" -> ExportDefaultExpressionAt(t, w)
    [] name = "EXPORT_DECLARATION_REGEX" -> ExportDeclarationAt(t, w)
    [] name = "EXPORT_NAMED_LIST_REGEX" -> ExportNamedListAt(t, w)
    [] name = "EXPORT_ALL_FROM_REGEX" -> ExportAllFromAt(t, w)

\* the expression called name tried at offset i
Try(name, t, i) ==
  IF name \in {"CLASS_REGEX", "FUNCTION_REGEX", "METHOD_REGEX"}
  THEN AsMatch(i, StructureAt(name, t, PrefixCandidates(t, i)))
  ELSE IF AtLineStart(t, i) THEN AsMatch(i, ModuleAt(name, t, SkipWs(t, i)))
  ELSE NoMatch

\* the match exec returns when S is the set of offsets at which one starts
Leftmost(name, t, S) == IF S = {} THEN NoMatch ELSE Try(name, t, Least(S))

\* regex.exec(t) of the /g expression called name whose lastIndex is from:
\* the leftmost match starting at or after from, or NoMatch
Exec(name, t, from) ==
  Leftmost(name, t, {i \in from..(Len(t) - 1) : Try(name, t, i).index # -1})

\* the matches a loop  while ((match = regex.exec(t)) !== null)  goes through
RECURSIVE Matches(_, _, _)
MatchesAfter(name, t, m) ==
  IF m.index = -1 THEN <<>> ELSE <<m>> \o Matches(name, t, m.end)

Matches(name, t, from) == MatchesAfter(name, t, Exec(name, t, from))

-----------------------------------------------------------------------------
(* parseImportSpecifiers, parseExportSpecifiers and the edge records *)

\* trimmedPart.match(/^([A-Za-z_][A-Za-z0-9_$]*)\s+as\s+([A-Za-z_][A-Za-z0-9_$]*)$/)
AliasMatch(p) ==
  LET n1 == Ident(p, 0, IdCharsD)
      s2 == Kw(p, Ws1(p, n1), "as")
  IN IF Ident(p, s2, IdCharsD) = Len(p)
     THEN [ok |-> TRUE, g1 |-> Substring(p, 0, n1), g2 |-> SubstringFrom(p, s2)]
     ELSE [ok |-> FALSE, g1 |-> Null, g2 |-> Null]

\* what the forEach of parseImportSpecifiers pushes for one part
ImportSpecifier(trimmedPart, aliasMatch) ==
  IF trimmedPart = <<>> THEN <<>>
  ELSE IF aliasMatch.ok
  THEN <<[type |-> "named", imported |-> aliasMatch.g1, local |-> aliasMatch.g2]>>
  ELSE <<[type |-> "named", imported |-> trimmedPart, local |-> trimmedPart]>>

\* what the forEach of parseExportSpecifiers pushes for one part
ExportSpecifier(trimmedPart, aliasMatch) ==
  IF trimmedPart = <<>> THEN <<>>
  ELSE IF aliasMatch.ok
  THEN <<[name |-> aliasMatch.g2, local |-> aliasMatch.g1]>>
  ELSE <<[name |-> trimmedPart, local |-> trimmedPart]>>

\* specifierString.split(',').forEach(...) from the k-th part on
RECURSIVE Specifiers(_, _, _)
Specifiers(parts, k, exporting) ==
  IF k > Len(parts) THEN <<>>
  ELSE (IF exporting THEN ExportSpecifier(Trim(parts[k]), AliasMatch(Trim(parts[k])))
        ELSE ImportSpecifier(Trim(parts[k]), AliasMatch(Trim(parts[k]))))
       \o Specifiers(parts, k + 1, exporting)

parseImportSpecifiers(specifierString) ==
  IF specifierString = <<>> \/ Trim(specifierString) = <<>> THEN <<>>
  ELSE Specifiers(Split(specifierString, ","), 1, FALSE)

parseExportSpecifiers(specifierString) ==
  IF specifierString = <<>> \/ Trim(specifierString) = <<>> THEN <<>>
  ELSE Specifiers(Split(specifierString, ","), 1, TRUE)

\* match[0]
Matched(content, m) == Substring(content, m.index, m.end)

\* the record an import loop pushes for the match m
ImportEdge(name, content, path, m) ==
  [raw |-> Matched(content, m),
   source |-> IF name = "IMPORT_SIDE_EFFECT_REGEX" THEN m.g2 ELSE m.g3,
   specifiers |->
     CASE name = "IMPORT_DEFAULT_REGEX" -> <<[type |-> "default", local |-> m.g1]>>
       [] name = "IMPORT_NAMESPACE_REGEX" -> <<[type |-> "namespace", local |-> m.g1]>>
       [] name = "IMPORT_NAMED_REGEX" -> parseImportSpecifiers(m.g1)
       [] name = "IMPORT_SIDE_EFFECT_REGEX" -> <<[type |-> "side-effect"]>>,
   start_line |-> getLineNumber(content, m.index),
   end_line |-> getLineNumber(content, m.end - 1),
   filePath |-> path]

\* the characters of match[0] the default-expression loop compares
PrefixLength == 20

\* exports.some(e => e.raw.startsWith(match[0].substring(0, Math.min(match[0].length, 20))))
AlreadyRecorded(exps, m0) ==
  \E k \in 1..Len(exps) :
     Lit(exps[k].raw, 0, Substring(m0, 0, MinOf(Len(m0), PrefixLength))) # -1

\* statementEndIndex from the next semicolon and the next newline
NearerEnd(headerEnd, endOfStatement, endOfLine) ==
  IF endOfStatement # -1 /\ (endOfLine = -1 \/ endOfStatement < endOfLine)
  THEN endOfStatement
  ELSE IF endOfLine # -1 THEN endOfLine
  ELSE headerEnd

\* a statement end searched from the top of the file instead of the match
StatementEndFromTop(content, m) ==
  NearerEnd(m.end - 1, IndexOf(content, <<";">>), IndexOf(content, <<"\n">>))

\* statementEndIndex of an expression or a const, let or var declaration
StatementEnd(content, m) ==
  NearerEnd(m.end - 1, IndexOfFrom(content, <<";">>, m.index),
            IndexOfFrom(content, <<"\n">>, m.index))

\* statementEndIndex of a function or class declaration
BlockEnd(content, m) ==
  LET openBrace == IndexOfFrom(content, <<"{">>, m.end - 1)
  IN IF openBrace # -1 /\ findClosingBrace(content, openBrace) # -1
     THEN findClosingBrace(content, openBrace)
     ELSE m.end - 1

\* statementEndIndex of the declaration loop
DeclarationEnd(content, m) ==
  IF m.g1 = Chars("function") \/ m.g1 = Chars("class") THEN BlockEnd(content, m)
  ELSE StatementEnd(content, m)

\* localName of the default-expression loop; the expression has one group,
\* so match[2] and match[3] are undefined
LocalName(m0) ==
  IF Includes(m0, Chars("function")) THEN Chars("anonymous_function")
  ELSE IF Includes(m0, Chars("class")) THEN Chars("anonymous_class")
  ELSE Chars("anonymous_expression")

\* a record whose end is computed from the text after the match
SpanningEdge(content, path, m, kind, items, statementEndIndex) ==
  [raw |-> Substring(content, m.index,
                     statementEndIndex
                     + (IF At(content, statementEndIndex) = ";" THEN 1 ELSE 0)),
   type |-> kind, exported_items |-> items, source |-> Null,
   start_line |-> getLineNumber(content, m.index),
   end_line |-> getLineNumber(content, statementEndIndex),
   filePath |-> path]

\* a record that ends where the match ends
MatchedEdge(content, path, m, kind, items, src) ==
  [raw |-> Matched(content, m), type |-> kind,
   exported_items |-> items, source |-> src,
   start_line |-> getLineNumber(content, m.index),
   end_line |-> getLineNumber(content, m.end - 1),
   filePath |-> path]

\* the record an export loop pushes for the match m
ExportEdge(name, content, path, m) ==
  CASE name = "EXPORT_DEFAULT_IDENTIFIER_REGEX" ->
         MatchedEdge(content, path, m, "default",
                     <<[name |-> Chars("default"), local |-> m.g1]>>, Null)
    [] name = "EXPORT_DEFAULT_EXPRESSION_REGEX" ->
         SpanningEdge(content, path, m, "default_expression",
                      <<[name |-> Chars("default"),
                         local |-> LocalName(Matched(content, m))]>>,
                      StatementEnd(content, m))
    [] name = "EXPORT_DECLARATION_REGEX" ->
         SpanningEdge(content, path, m, "declaration",
                      <<[name |-> m.g2, local |-> m.g2]>>, DeclarationEnd(content, m))
    [] name = "EXPORT_NAMED_LIST_REGEX" ->
         MatchedEdge(content, path, m,
                     IF m.g3 # Null THEN "re-export_named" ELSE "named_list",
                     parseExportSpecifiers(m.g1), m.g3)
    [] name = "EXPORT_ALL_FROM_REGEX" ->
         MatchedEdge(content, path, m, "re-export_all",
                     <<[name |-> <<"*">>, local |-> <<"*">>]>>, m.g2)

\* the body of one while loop, run for the matches ms from the k-th on; the
\* default-expression loop starts with a `continue`
RECURSIVE PushAll(_, _, _, _, _, _)
PushAll(name, content, path, ms, k, acc) ==
  IF k > Len(ms) THEN acc
  ELSE PushAll(name, content, path, ms, k + 1,
               IF name = "EXPORT_DEFAULT_EXPRESSION_REGEX"
                  /\ AlreadyRecorded(acc, Matched(content, ms[k]))
               THEN acc
               ELSE IF name \in {ImportRegexes[j] : j \in DOMAIN ImportRegexes}
               THEN Append(acc, ImportEdge(name, content, path, ms[k]))
               ELSE Append(acc, ExportEdge(name, content, path, ms[k])))

\* the while loops over the expressions names, from the k-th on, in order
RECURSIVE RunLoops(_, _, _, _, _)
RunLoops(names, k, content, path, acc) ==
  IF k > Len(names) THEN acc
  ELSE RunLoops(names, k + 1, content, path,
                PushAll(names[k], content, path, Matches(names[k], content, 0), 1, acc))

-----------------------------------------------------------------------------
(* parseJavaScriptCode: the structure passes *)

\* a test of the result of findClosingBrace that never skips
NeverNotFound(braceIndex) == FALSE

\* === -1 on the result of findClosingBrace
NotFound(braceIndex) == braceIndex = -1

\* the element pushed for a class whose closing brace is at closing
ClassElement(content, path, m, closing) ==
  [type |-> "class", name |-> m.g3, filePath |-> path,
   signature |-> Chars("class ") \o m.g3 \o Chars(" { ... }"),
   summary |-> summarizeComment(m.g1, m.g2),
   code_snippet |-> Substring(content, m.index, closing + 1),
   className |-> Null,
   start_line |-> getLineNumber(content, m.index),
   end_line |-> getLineNumber(content, closing)]

\* s.replace('*', '')
RemoveStar(s) ==
  IF IndexOf(s, <<"*">>) = -1 THEN s
  ELSE Substring(s, 0, IndexOf(s, <<"*">>)) \o SubstringFrom(s, IndexOf(s, <<"*">>) + 1)

\* a method element that, like a class element, carries no class name
MethodElementOfNoClass(content, path, className, mm, start, closing) ==
  [ClassElement(content, path, [index |-> start, g1 |-> mm.g1, g2 |-> mm.g2, g3 |-> mm.g5],
                closing) EXCEPT !.type = "method"]

\* the element pushed for a method matched by mm in the body of className;
\* start and closing are offsets in the file
MethodElement(content, path, className, mm, start, closing) ==
  [type |-> "method", name |-> Trim(RemoveStar(mm.g5)), filePath |-> path,
   signature |-> mm.g3 \o mm.g4 \o mm.g5 \o <<"(">> \o mm.g6 \o <<")">>,
   summary |-> summarizeComment(mm.g1, mm.g2),
   code_snippet |-> Substring(content, start, closing + 1),
   className |-> className,
   start_line |-> getLineNumber(content, start),
   end_line |-> getLineNumber(content, closing)]

\* the element pushed for a function whose closing brace is at closing
FunctionElement(content, path, m, closing) ==
  [type |-> "function", name |-> m.g3, filePath |-> path,
   signature |-> Chars("function ") \o m.g3 \o <<"(">> \o m.g4 \o <<")">>,
   summary |-> summarizeComment(m.g1, m.g2),
   code_snippet |-> Substring(content, m.index, closing + 1),
   className |-> Null,
   start_line |-> getLineNumber(content, m.index),
   end_line |-> getLineNumber(content, closing)]

\* The while loop over METHOD_REGEX in one class body, from lastIndex from:
\* the pushed elements with the offsets they were cut from.
RECURSIVE MethodLoop(_, _, _, _, _, _)
MethodIteration(content, path, className, classBodyStartIndex, classBodyContent, mm, methodEndBraceIndex) ==
  (IF NotFound(methodEndBraceIndex) THEN <<>>
   ELSE <<[el |-> MethodElement(content, path, className, mm,
                                classBodyStartIndex + mm.index, methodEndBraceIndex),
           span |-> [start |-> classBodyStartIndex + mm.index,
                     finish |-> methodEndBraceIndex]]>>)
  \o MethodLoop(content, path, className, classBodyStartIndex, classBodyContent, mm.end)

MethodLoopOn(content, path, className, classBodyStartIndex, classBodyContent, mm) ==
  IF mm.index = -1 THEN <<>>
  ELSE MethodIteration(content, path, className, classBodyStartIndex, classBodyContent,
                       mm, findClosingBrace(content, classBodyStartIndex + mm.end - 1))

MethodLoop(content, path, className, classBodyStartIndex, classBodyContent, from) ==
  MethodLoopOn(content, path, className, classBodyStartIndex, classBodyContent,
               Exec("METHOD_REGEX", classBodyContent, from))

\* an iteration of the class loop that scans for methods to the end of the
\* file instead of the closing brace of the class
ClassPushesToEndOfFile(content, path, m, classEndBraceIndex) ==
  <<[el |-> ClassElement(content, path, m, classEndBraceIndex),
     span |-> [start |-> m.index, finish |-> classEndBraceIndex]]>>
  \o MethodLoop(content, path, m.g3, m.end, SubstringFrom(content, m.end), 0)

\* what one iteration of the class loop pushes for the match m
ClassPushes(content, path, m, classEndBraceIndex) ==
  <<[el |-> ClassElement(content, path, m, classEndBraceIndex),
     span |-> [start |-> m.index, finish |-> classEndBraceIndex]]>>
  \o MethodLoop(content, path, m.g3, m.end,
                Substring(content, m.end, classEndBraceIndex), 0)

\* the test the function loop makes of one element el for a match at
\* funcStartIndex; classStartCharIndex is fileContent.indexOf(el.code_snippet)
InsideClass(el, funcStartIndex, classStartCharIndex) ==
  /\ el.type = "class"
  /\ funcStartIndex > el.start_line
  /\ funcStartIndex < el.end_line
  /\ funcStartIndex > classStartCharIndex
  /\ funcStartIndex < classStartCharIndex + Len(el.code_snippet)

isInsideClass(content, els, funcStartIndex) ==
  \E k \in 1..Len(els) :
     InsideClass(els[k], funcStartIndex, IndexOf(content, els[k].code_snippet))

\* a test that finds no function captured
NeverCaptured(content, exps, match) == FALSE

\* the test for a function already captured as a default export
CapturedAsDefaultExport(content, exps, match) ==
  \E k \in 1..Len(exps) :
     /\ Includes(exps[k].raw, Matched(content, match))
     /\ Includes(exps[k].raw, Chars("export default function"))
     /\ getLineNumber(content, match.index) = exps[k].start_line

-----------------------------------------------------------------------------
(* Input files *)

MaxLines == 2
MaxDocLines == 3
MaxCalls == 2
MaxIndent == 2
MaxName == 6

\* t1 \n t2 \n ... \n tn
RECURSIVE JoinLines(_)
JoinLines(ls) ==
  IF Len(ls) = 0 THEN <<>>
  ELSE IF Len(ls) = 1 THEN ls[1]
  ELSE ls[1] \o <<"\n">> \o JoinLines(Tail(ls))

SeqsUpTo(S, n) == UNION {[1..k -> S] : k \in 1..n}

StructureLines ==
  { Chars("class A {"),
    Chars("}"),
    Chars("  m() { }"),
    Chars("function f() { }"),
    Chars("class B { k() { } }"),
    Chars("/** Doc. */"),
    Chars("// note"),
    Chars("export default function g() {"),
    <<>> }

ClassFoo == Chars("class Foo { B }")
MethodAndFunction ==
  Chars("class C { foo() { return 1; } }\nfunction bar() { return 2; }")
NestedFunction == Chars("class A {\n  m() {\n    function h() { }\n  }\n}")
UnclosedClass == Chars("class A {\nclass B { }\nfunction f() { }")
AddsTwoNumbers == Chars("/** Adds two numbers.\n * @param a */\nfunction add(a) { }")
GeneratorMethod ==
  Chars("class A {\n  static async *gen(a, b) {\n    if (a) {\n    }\n  }\n}\n")

\* a getter with a comment after it on its line, and the setter of the same
\* name on the next line
GetterAndSetter ==
  Chars("class A {\n  k() { }\n  get v() { } // c\n  set v(x) { }\n}")

StructureExamples ==
  {ClassFoo, MethodAndFunction, NestedFunction, UnclosedClass, AddsTwoNumbers,
   GeneratorMethod, GetterAndSetter}

StructureFiles ==
  StructureExamples \cup {JoinLines(ls) : ls \in SeqsUpTo(StructureLines, MaxLines)}

NamedImport == Chars("import { a, b as c } from 'mod'")
NamedReExport == Chars("export { x } from './y';")
NamedExport == Chars("export { x as y, z };")

ModuleLines ==
  { NamedImport,
    NamedReExport,
    NamedExport,
    Chars("export default foo;"),
    Chars("export const v = 1;"),
    Chars("export function f() {"),
    Chars("}"),
    <<>> }

\* a default export of a function on an indented line, after a default export
\* that no semicolon ends
IndentedDefaultFunction ==
  Chars("export default a\n  export default function g() { return 1; }")
DefaultFunction == Chars("export default function g() { }")
AnonymousFunction == Chars("export default function() { }")
AnonymousClass == Chars("export default class { }")
ObjectLiteral == Chars("export default { a: 1 }")
ArrayLiteral == Chars("export default [1];")
NewExpression == Chars("export default new K()")

DefaultImport == Chars("import d from \"m\";")
NamespaceImport == Chars("import * as ns from 'm'")
SideEffectAndNamedImport == Chars("import 'side';\nimport { a as b, } from \"m\"")

DefaultExamples ==
  {IndentedDefaultFunction, DefaultFunction, AnonymousFunction, AnonymousClass,
   ObjectLiteral, ArrayLiteral, NewExpression}

ModuleExamples ==
  DefaultExamples \cup
  { DefaultImport,
    NamespaceImport,
    SideEffectAndNamedImport,
    Chars("export class K {\n  m() {\n  }\n}\nexport let w"),
    Chars("export * from 'm'") }

\* `export default ff(1)` with ws spaces before it and a name of n letters
DefaultCall(ws, n) ==
  [k \in 1..ws |-> " "] \o Chars("export default ") \o [k \in 1..n |-> "f"] \o Chars("(1)")

DefaultCalls == {DefaultCall(ws, n) : ws \in 0..MaxIndent, n \in 1..MaxName}

ModuleFiles ==
  ModuleExamples \cup DefaultCalls
  \cup {JoinLines(ls) : ls \in SeqsUpTo(ModuleLines, MaxLines)}

DocLines == {Chars("Adds."), Chars("two"), Chars("@param a"), <<>>}

RECURSIVE DocBody(_)
DocBody(ls) ==
  IF Len(ls) = 0 THEN <<>>
  ELSE Chars(" * ") \o ls[1] \o <<"\n">> \o DocBody(Tail(ls))

\* a function with the documentation comment whose lines are ls before it
DocFile(ls) == Chars("/**\n") \o DocBody(ls) \o Chars(" */\nfunction f() { }")

DocInputs == SeqsUpTo(DocLines, MaxDocLines)

RECURSIVE SlashBody(_)
SlashBody(ls) ==
  IF Len(ls) = 0 THEN <<>>
  ELSE Chars("// ") \o ls[1] \o <<"\n">> \o SlashBody(Tail(ls))

\* a function with the line comments whose lines are ls before it
SlashFile(ls) == SlashBody(ls) \o Chars("function f() { }")

\* lines long enough for two of them to pass the limit of the first-sentence
\* heuristic: one without a period, one with a period after its first word
SixtyLetters == [k \in 1..60 |-> "a"]
LongLines == {SixtyLetters, Chars("One. ") \o SixtyLetters, Chars("End.")}

LongInputs == SeqsUpTo(LongLines, MaxDocLines)

DocFiles ==
  {AddsTwoNumbers}
  \cup {DocFile(ls) : ls \in DocInputs \cup LongInputs}
  \cup {SlashFile(ls) : ls \in DocInputs \cup LongInputs}

RepeatFiles ==
  StructureExamples \cup {NamedImport, NamedReExport, Chars("export class K { }"), <<>>}

\* the contents posted to the server
ServerFiles == {ClassFoo, MethodAndFunction, UnclosedClass, NamedImport, DefaultFunction}

Files(c) ==
  CASE c = "structure" -> StructureFiles
    [] c = "module" -> ModuleFiles
    [] c = "comment" -> DocFiles
    [] c = "repeat" -> RepeatFiles
    [] c = "server" -> ServerFiles

Paths == {"a.js"}

-----------------------------------------------------------------------------
(* parseJavaScriptCode as a state machine *)

\* the two revisions of parseJavaScriptCode in the repository
Revisions == {"codeParser.js", "part_000"}

\* whether the revision declares the array `elements` its structure passes use
ElementsDeclared(rev) == rev = "codeParser.js"

\* a reset that leaves every lastIndex where the call before left it
KeepLastIndex(rev, li) == li

\* the resets at the top of a call, of the expressions the revision defines
ResetLastIndex(rev, li) ==
  [r \in Regexes |->
     IF rev = "part_000" \/ r \in {"CLASS_REGEX", "FUNCTION_REGEX", "METHOD_REGEX"}
     THEN 0 ELSE li[r]]

\* an array kept from the call before
SharedArray(old) == old

\* const elements = []
FreshArray(old) == <<>>

NoResult == [kind |-> "none", structures |-> <<>>, imports |-> <<>>, exports |-> <<>>]
\* ReferenceError: elements is not defined
Thrown == [kind |-> "ReferenceError", structures |-> <<>>, imports |-> <<>>, exports |-> <<>>]
\* return elements
ArrayResult(els) == [kind |-> "array", structures |-> els, imports |-> <<>>, exports |-> <<>>]
\* return { structures: elements, imports, exports }
AggregateResult(els, imps, exps) ==
  [kind |-> "aggregate", structures |-> els, imports |-> imps, exports |-> exps]

NoCall == [content |-> <<>>, path |-> "", result |-> NoResult]

\* what the server keeps outside the parser: the collection, the clock and
\* the snippet requests in flight
services == <<qdrant, now, pending>>

\* a call of parseJavaScriptCode: the declarations and resets at its top
Call(text, path) ==
  /\ pc \in {"idle", "done"}
  /\ callsLeft > 0
  /\ callsLeft' = callsLeft - 1
  /\ fileContent' = text
  /\ filePath' = path
  /\ elements' = FreshArray(elements)
  /\ spans' = <<>>
  /\ imports' = <<>>
  /\ exports' = <<>>
  /\ lastIndex' = ResetLastIndex(impl, lastIndex)
  /\ result' = NoResult
  /\ prev' = IF pc = "done"
             THEN [content |-> fileContent, path |-> filePath, result |-> result]
             ELSE prev
  /\ pc' = IF impl = "codeParser.js" THEN "classes" ELSE "imports"
  /\ UNCHANGED <<impl, corpus>>

CallAny ==
  /\ \E text \in Files(corpus), path \in Paths : Call(text, path)
  /\ UNCHANGED <<server, services>>

\* the four import loops
ParseImports ==
  /\ pc = "imports"
  /\ imports' = RunLoops(ImportRegexes, 1, fileContent, filePath, imports)
  /\ pc' = "exports"
  /\ UNCHANGED <<impl, corpus, callsLeft, fileContent, filePath, elements, spans,
                 exports, lastIndex, result, prev, server, services>>

\* the five export loops
ParseExports ==
  /\ pc = "exports"
  /\ exports' = RunLoops(ExportRegexes, 1, fileContent, filePath, exports)
  /\ pc' = "classes"
  /\ UNCHANGED <<impl, corpus, callsLeft, fileContent, filePath, elements, spans,
                 imports, lastIndex, result, prev, server, services>>

\* the ReferenceError at a use of the undeclared `elements`
Throw(name, match) ==
  /\ lastIndex' = [lastIndex EXCEPT ![name] = match.end]
  /\ pc' = "done"
  /\ result' = Thrown
  /\ UNCHANGED <<elements, spans>>

\* a `continue` of the loop over the expression called name
Continue(name, match) ==
  /\ lastIndex' = [lastIndex EXCEPT ![name] = match.end]
  /\ UNCHANGED <<pc, elements, spans, result>>

\* exec returned null: the loop over the expression called name ends
LoopEnd(name, after) ==
  /\ lastIndex' = [lastIndex EXCEPT ![name] = 0]
  /\ pc' = after
  /\ UNCHANGED <<elements, spans, result>>

\* the pushes of one iteration of the class loop, ps
ClassPushed(match, ps) ==
  /\ lastIndex' = [lastIndex EXCEPT !["CLASS_REGEX"] = match.end, !["METHOD_REGEX"] = 0]
  /\ elements' = elements \o [k \in 1..Len(ps) |-> ps[k].el]
  /\ spans' = spans \o [k \in 1..Len(ps) |-> ps[k].span]
  /\ UNCHANGED <<pc, result>>

\* the body of the class loop for what exec returned
ClassIteration(match, classEndBraceIndex) ==
  IF match.index = -1 THEN LoopEnd("CLASS_REGEX", "functions")
  ELSE IF NotFound(classEndBraceIndex) THEN Continue("CLASS_REGEX", match)
  ELSE IF ~ElementsDeclared(impl) THEN Throw("CLASS_REGEX", match)
  ELSE ClassPushed(match, ClassPushes(fileContent, filePath, match, classEndBraceIndex))

ClassExec(match) ==
  ClassIteration(match, IF match.index = -1 THEN -1
                        ELSE findClosingBrace(fileContent, match.end - 1))

\* one iteration of the while loop over CLASS_REGEX
ClassStep ==
  /\ pc = "classes"
  /\ ClassExec(Exec("CLASS_REGEX", fileContent, lastIndex["CLASS_REGEX"]))
  /\ UNCHANGED <<impl, corpus, callsLeft, fileContent, filePath, imports, exports, prev,
                 server, services>>

\* the body of the function loop for what exec returned
FunctionIteration(match, functionEndBraceIndex) ==
  IF match.index = -1 THEN LoopEnd("FUNCTION_REGEX", "return")
  ELSE IF impl = "part_000" /\ CapturedAsDefaultExport(fileContent, exports, match)
  THEN Continue("FUNCTION_REGEX", match)
  ELSE IF ~ElementsDeclared(impl) THEN Throw("FUNCTION_REGEX", match)
  ELSE IF isInsideClass(fileContent, elements, match.index)
  THEN Continue("FUNCTION_REGEX", match)
  ELSE IF NotFound(functionEndBraceIndex) THEN Continue("FUNCTION_REGEX", match)
  ELSE /\ lastIndex' = [lastIndex EXCEPT !["FUNCTION_REGEX"] = match.end]
       /\ elements' = Append(elements, FunctionElement(fileContent, filePath, match,
                                                       functionEndBraceIndex))
       /\ spans' = Append(spans, [start |-> match.index, finish |-> functionEndBraceIndex])
       /\ UNCHANGED <<pc, result>>

FunctionExec(match) ==
  FunctionIteration(match, IF match.index = -1 THEN -1
                           ELSE findClosingBrace(fileContent, match.end - 1))

\* one iteration of the while loop over FUNCTION_REGEX
FunctionStep ==
  /\ pc = "functions"
  /\ FunctionExec(Exec("FUNCTION_REGEX", fileContent, lastIndex["FUNCTION_REGEX"]))
  /\ UNCHANGED <<impl, corpus, callsLeft, fileContent, filePath, imports, exports, prev,
                 server, services>>

\* the return statement
Return ==
  /\ pc = "return"
  /\ pc' = "done"
  /\ result' = IF ~ElementsDeclared(impl) THEN Thrown
               ELSE IF impl = "codeParser.js" THEN ArrayResult(elements)
               ELSE AggregateResult(elements, imports, exports)
  /\ UNCHANGED <<impl, corpus, callsLeft, fileContent, filePath, elements, spans,
                 imports, exports, lastIndex, prev, server, services>>

\* a query parameter or a property of the JSON body that is a string
String(s) == [type |-> "string", value |-> s]
\* one that is absent
Undefined == [type |-> "undefined", value |-> <<>>]
\* one that is a number other than 0
Number == [type |-> "number", value |-> <<>>]

\* the server before its first request
NoRequest ==
  [route |-> "", phase |-> "idle", status |-> 0, error |-> "", success |-> FALSE,
   indexed_count |-> 0, results |-> 0, embeddings |-> 0, upserts |-> 0, searches |-> 0,
   limit |-> 0, filtered |-> FALSE, failure |-> "none", refused |-> FALSE,
   body |-> <<>>, rawResult |-> <<>>, request |-> <<>>]

InitWith(c, n) ==
  /\ impl \in Revisions
  /\ corpus = c
  /\ callsLeft = n
  /\ pc = "idle"
  /\ fileContent = <<>>
  /\ filePath = ""
  /\ elements = <<>>
  /\ spans = <<>>
  /\ imports = <<>>
  /\ exports = <<>>
  /\ lastIndex = [r \in Regexes |-> 0]
  /\ result = NoResult
  /\ prev = NoCall
  /\ server = NoRequest
  /\ qdrant = {}
  /\ now = 0
  /\ pending = <<>>

Next == CallAny \/ ParseImports \/ ParseExports \/ ClassStep \/ FunctionStep \/ Return

\* one call on a file of declarations
Init == InitWith("structure", 1)
Spec == Init /\ [][Next]_vars

\* one call on a file of import and export statements
InitModule == InitWith("module", 1)
SpecModule == InitModule /\ [][Next]_vars

\* one call on a function with a documentation comment
InitDoc == InitWith("comment", 1)
SpecDoc == InitDoc /\ [][Next]_vars

\* MaxCalls calls in succession
InitRepeat == InitWith("repeat", MaxCalls)
SpecRepeat == InitRepeat /\ [][Next]_vars


-----------------------------------------------------------------------------
(* index.js: the handlers of /index-file-structures and /find-symbols-by-name *)

\* !v || typeof v !== 'string'
NotAString(v) == v.type # "string" \/ v.value = <<>>

\* v && typeof v === 'string' && v.trim() !== ''
NonBlankString(v) == v.type = "string" /\ Trim(v.value) # <<>>

Digit == <<"0", "1", "2", "3", "4", "5", "6", "7", "8", "9">>
Digits == {Digit[k] : k \in 1..10}

\* the number the decimal digits of t from i to j stand for, after acc
RECURSIVE Decimal(_, _, _, _)
Decimal(t, i, j, acc) ==
  IF i >= j THEN acc
  ELSE Decimal(t, i + 1, j, 10 * acc + (CHOOSE d \in 0..9 : Digit[d + 1] = At(t, i)))

\* parseInt(s, 10) with the sign at a, or none, and the digits from b
SignedDigits(s, a, b) ==
  IF RunOf(s, b, Digits) = b THEN [nan |-> TRUE, value |-> 0]
  ELSE [nan |-> FALSE,
        value |-> IF At(s, a) = "-" THEN 0 - Decimal(s, b, RunOf(s, b, Digits), 0)
                  ELSE Decimal(s, b, RunOf(s, b, Digits), 0)]

\* parseInt(s, 10)
parseInt(s) ==
  SignedDigits(s, SkipWs(s, 0),
               IF At(s, SkipWs(s, 0)) \in {"+", "-"} THEN SkipWs(s, 0) + 1 ELSE SkipWs(s, 0))

DefaultLimit == 10

\* validatedLimit of /find-symbols-by-name for the query parameter limit
validatedLimit(limit, parsedLimit) ==
  IF limit.type = "undefined" THEN DefaultLimit
  ELSE IF parsedLimit.nan \/ parsedLimit.value <= 0 THEN DefaultLimit
  ELSE parsedLimit.value

\* res.status(code).json({ error }) before anything was asked of a service
BadRequest(route, message) ==
  [NoRequest EXCEPT !.route = route, !.phase = "responded", !.status = 400,
                    !.error = message, !.refused = TRUE]

\* the response of a catch block: by is the service that failed, "" for an
\* error that is neither an OpenAI.APIError nor one whose message names qdrant
Failed(route, by, code, message, asked) ==
  [NoRequest EXCEPT !.route = route, !.phase = "responded", !.status = code,
                    !.error = message, !.failure = by,
                    !.embeddings = asked.embeddings, !.upserts = asked.upserts,
                    !.searches = asked.searches]

Asked(e, u, s) == [embeddings |-> e, upserts |-> u, searches |-> s]

\* the variables of parseJavaScriptCode
parser ==
  <<impl, corpus, callsLeft, pc, fileContent, filePath, elements, spans, imports,
    exports, lastIndex, result, prev>>

\* POST /index-file-structures up to the return of parseJavaScriptCode: the
\* two checks of the body and the call
PostIndexFileStructures(path, content) ==
  /\ server.phase \in {"idle", "responded"}
  /\ UNCHANGED services
  /\ IF NotAString(path)
     THEN /\ server' = [BadRequest("/index-file-structures",
                                   "filePath is required and must be a string.")
                        EXCEPT !.request = [filePath |-> path, content |-> content]]
          /\ UNCHANGED parser
     ELSE IF NotAString(content)
     THEN /\ server' = [BadRequest("/index-file-structures",
                                   "content is required and must be a string.")
                        EXCEPT !.request = [filePath |-> path, content |-> content]]
          /\ UNCHANGED parser
     ELSE /\ Call(content.value, path.value)
          /\ server' = [NoRequest EXCEPT !.route = "/index-file-structures",
                                         !.phase = "parsing",
                                         !.request = [filePath |-> path,
                                                      content |-> content]]

\* const { structures, imports, exports } = <what the call gave back>:
\* whether structures is an array
Destructured(returned) == returned.kind = "aggregate"

\* the point of one structural element, under its point_id
\*   filePath:type:className or '':name:start_line
\* kept as the tuple of its five parts
StructurePoint(element) ==
  [id |-> <<element.filePath, element.type, element.className, element.name,
            element.start_line>>,
   payload |-> element]

\* the file_metadata point of a file with n structures
FileMetadataPoint(path, n, imps, exps) ==
  [id |-> <<"filemeta", path>>,
   payload |-> [type |-> "file_metadata", filePath |-> path, imports |-> imps,
                exports |-> exps, summary |-> Null, structure_count |-> n,
                import_count |-> Len(imps), export_count |-> Len(exps)]]

\* qdrant.upsert of the points ps, in order: a point replaces the point of
\* the same id
RECURSIVE Upsert(_, _)
Upsert(collection, ps) ==
  IF ps = <<>> THEN collection
  ELSE Upsert({p \in collection : p.id # Head(ps).id} \cup {Head(ps)}, Tail(ps))

\* points_to_upsert of /index-file-structures
PointsToUpsert(path, returned) ==
  [k \in DOMAIN returned.structures |-> StructurePoint(returned.structures[k])]
  \o <<FileMetadataPoint(path, Len(returned.structures), returned.imports,
                          returned.exports)>>

\* the rest of the handler for the n structures: the embedding requests, of
\* which the one numbered failing fails (0: none), the upsert and the response
IndexPoints(n, failing, apiStatus, upsertFails) ==
  IF failing \in 1..(n + 1)
  THEN Failed("/index-file-structures", "openai",
              IF apiStatus # 0 THEN apiStatus ELSE 500,
              "OpenAI API error during structure indexing.", Asked(failing, 0, 0))
  ELSE IF upsertFails
  THEN Failed("/index-file-structures", "qdrant", 500,
              "Qdrant client error during structure indexing.", Asked(n + 1, 1, 0))
  ELSE [NoRequest EXCEPT !.route = "/index-file-structures", !.phase = "responded",
                         !.status = 200, !.success = TRUE, !.indexed_count = n + 1,
                         !.embeddings = n + 1, !.upserts = 1]

\* POST /index-file-structures from the return of parseJavaScriptCode on
IndexFileStructures(failing, apiStatus, upsertFails) ==
  /\ server.phase = "parsing"
  /\ pc = "done"
  /\ server' =
       [(IF result.kind = "ReferenceError" \/ ~Destructured(result)
         THEN Failed("/index-file-structures", "", 500,
                     "Failed to index file structures due to an internal server error.",
                     Asked(0, 0, 0))
         ELSE IndexPoints(Len(result.structures), failing, apiStatus, upsertFails))
        EXCEPT !.request = server.request]
  /\ qdrant' = IF server'.success
               THEN Upsert(qdrant, PointsToUpsert(server.request.filePath.value, result))
               ELSE qdrant
  /\ UNCHANGED <<parser, now, pending>>

\* the response of GET /find-symbols-by-name once name has passed its check
SearchSymbols(type, limit, failing, apiStatus, hits) ==
  IF failing = "openai"
  THEN Failed("/find-symbols-by-name", "openai", IF apiStatus # 0 THEN apiStatus ELSE 500,
              "OpenAI API error during symbol search.", Asked(1, 0, 0))
  ELSE IF failing = "qdrant"
  THEN Failed("/find-symbols-by-name", "qdrant", 500,
              "Qdrant client error during symbol search.", Asked(1, 0, 1))
  ELSE IF failing = "other"
  THEN Failed("/find-symbols-by-name", "", 500,
              "Failed to find symbols due to an internal server error.", Asked(1, 0, 0))
  ELSE [NoRequest EXCEPT !.route = "/find-symbols-by-name", !.phase = "responded",
                         !.status = 200, !.results = MinOf(hits, limit),
                         !.embeddings = 1, !.searches = 1, !.limit = limit,
                         !.filtered = NonBlankString(type)]

\* GET /find-symbols-by-name
FindSymbolsByName(name, type, limit, failing, apiStatus, hits) ==
  /\ server.phase \in {"idle", "responded"}
  /\ server' =
       [(IF ~NonBlankString(name)
         THEN BadRequest("/find-symbols-by-name",
                         "name query parameter is required and must be a non-empty string.")
         ELSE SearchSymbols(type, validatedLimit(limit, parseInt(limit.value)),
                            failing, apiStatus, hits))
        EXCEPT !.request = [name |-> name, type |-> type, limit |-> limit]]
  /\ UNCHANGED <<parser, services>>

\* payload.f, Null standing for undefined
Field(payload, f) == IF f \in DOMAIN payload THEN payload[f] ELSE Null

\* the entry of the outline for one point: the summary cut to 75 characters
OutlineEntry(payload) ==
  [type |-> Field(payload, "type"), name |-> Field(payload, "name"),
   signature |-> Field(payload, "signature"),
   summary |-> IF Len(Field(payload, "summary")) > 75
               THEN Substring(Field(payload, "summary"), 0, 75) \o Chars("...")
               ELSE Field(payload, "summary"),
   start_line |-> Field(payload, "start_line"), end_line |-> Field(payload, "end_line"),
   className |-> Field(payload, "className")]

\* a.start_line || 0
StartLineOrZero(payload) ==
  IF "start_line" \in DOMAIN payload THEN payload.start_line ELSE 0

\* what the scroll loop collects: the points whose payload.filePath is path,
\* of whatever type
Scrolled(path) == {p \in qdrant : Field(p.payload, "filePath") = path}

\* the orders in which the sorted outline can hold the points: the scroll
\* gives them in an order of its own, the sort keeps that order among equal
\* start lines
Sorted(points) ==
  {out \in [1..Cardinality(points) -> points] :
     /\ \A i, j \in DOMAIN out : i # j => out[i] # out[j]
     /\ \A i, j \in DOMAIN out :
          i < j => StartLineOrZero(out[i].payload) <= StartLineOrZero(out[j].payload)}

\* GET /file-outline
FileOutline(path, failing) ==
  /\ server.phase \in {"idle", "responded"}
  /\ IF NotAString(path)
     THEN server' = [BadRequest("/file-outline", "filePath query parameter is required.")
                     EXCEPT !.request = [filePath |-> path]]
     ELSE IF failing = "qdrant"
     THEN server' = [Failed("/file-outline", "qdrant", 500,
                            "Qdrant client error while fetching file outline.",
                            Asked(0, 0, 1))
                     EXCEPT !.request = [filePath |-> path]]
     ELSE IF failing = "other"
     THEN server' = [Failed("/file-outline", "", 500,
                            "Failed to fetch file outline due to an internal server error.",
                            Asked(0, 0, 1))
                     EXCEPT !.request = [filePath |-> path]]
     ELSE \E out \in Sorted(Scrolled(path.value)) :
             server' = [NoRequest EXCEPT
                          !.route = "/file-outline", !.phase = "responded", !.status = 200,
                          !.searches = 1, !.results = Len(out),
                          !.body = [k \in DOMAIN out |-> OutlineEntry(out[k].payload)],
                          !.request = [filePath |-> path]]
  /\ UNCHANGED <<parser, services>>

\* the requests made of the server
PathValues == {Undefined, Number, String(Chars("a.js"))}
ContentValues == {Undefined, Number, String(<<>>)} \cup {String(t) : t \in Files(corpus)}
NameValues == {Undefined, String(Chars(" ")), String(Chars("foo"))}
TypeValues == {Undefined, String(Chars("class"))}
LimitValues == {Undefined} \cup {String(Chars(s)) : s \in {"5", "0", "-1", "abc", "5abc"}}
MaxHits == 1
ApiStatuses == {0, 429}

PostAny == \E path \in PathValues, content \in ContentValues :
              PostIndexFileStructures(path, content)

IndexAny == \E failing \in 0..1, apiStatus \in ApiStatuses, upsertFails \in BOOLEAN :
               IndexFileStructures(failing, apiStatus, upsertFails)

\* how the services answer one search: the status of a failed embedding
\* request matters when that request fails, the number of hits when none does
SearchOutcomes ==
  {[failing |-> "none", apiStatus |-> 0, hits |-> h] : h \in 0..MaxHits}
  \cup {[failing |-> "openai", apiStatus |-> a, hits |-> 0] : a \in ApiStatuses}
  \cup {[failing |-> f, apiStatus |-> 0, hits |-> 0] : f \in {"qdrant", "other"}}

FindAny == \E name \in NameValues, type \in TypeValues, limit \in LimitValues,
              o \in SearchOutcomes :
              FindSymbolsByName(name, type, limit, o.failing, o.apiStatus, o.hits)

OutlineAny == \E path \in PathValues, failing \in {"none", "qdrant", "other"} :
                 FileOutline(path, failing)

NextServer ==
  \/ PostAny \/ ParseImports \/ ParseExports \/ ClassStep \/ FunctionStep \/ Return
  \/ IndexAny \/ FindAny \/ OutlineAny

\* requests to the server, of which MaxCalls reach the parser
InitServer == InitWith("server", MaxCalls)
SpecServer == InitServer /\ [][NextServer]_vars

-----------------------------------------------------------------------------
(* index.js: the handler of /index-snippet *)

MaxClock == 1
MaxPending == 2

\* !v
Falsy(v) == v.type = "undefined" \/ (v.type = "string" /\ v.value = <<>>)

\* id: Date.now(), kept as a tuple of one number
SnippetId(clock) == <<clock>>

\* qdrantPayload
SnippetPayload(code, comment) ==
  [code |-> code.value,
   comment |-> IF NonBlankString(comment) THEN Trim(comment.value) ELSE Null,
   type |-> "snippet"]

\* POST /index-snippet up to its first await: the check of the body and the
\* request for the embedding
PostIndexSnippet(code, comment) ==
  /\ IF Falsy(code)
     THEN /\ server' = BadRequest("/index-snippet", "Code is required.")
          /\ UNCHANGED pending
     ELSE /\ Len(pending) < MaxPending
          /\ pending' = Append(pending, [code |-> code, comment |-> comment])
          /\ UNCHANGED server
  /\ UNCHANGED <<parser, qdrant, now>>

\* POST /index-snippet from the answer to the k-th pending request for an
\* embedding on: the upsert under the id taken from the clock and the response
SnippetEmbedded(k, failing, apiStatus) ==
  /\ k \in DOMAIN pending
  /\ pending' = [j \in 1..(Len(pending) - 1) |-> IF j < k THEN pending[j] ELSE pending[j + 1]]
  /\ IF failing = "openai"
     THEN /\ server' = Failed("/index-snippet", "openai",
                              IF apiStatus # 0 THEN apiStatus ELSE 500,
                              "OpenAI API error during embedding generation for snippet.",
                              Asked(1, 0, 0))
          /\ UNCHANGED qdrant
     ELSE IF failing = "qdrant"
     THEN /\ server' = Failed("/index-snippet", "qdrant", 500,
                              "Qdrant client error during snippet indexing.", Asked(1, 1, 0))
          /\ UNCHANGED qdrant
     ELSE /\ qdrant' = Upsert(qdrant, <<[id |-> SnippetId(now),
                                         payload |-> SnippetPayload(pending[k].code,
                                                                    pending[k].comment)]>>)
          /\ server' = [NoRequest EXCEPT !.route = "/index-snippet", !.phase = "responded",
                                         !.status = 200, !.success = TRUE,
                                         !.embeddings = 1, !.upserts = 1]
  /\ UNCHANGED <<parser, now>>

\* a millisecond passes
Tick ==
  /\ now < MaxClock
  /\ now' = now + 1
  /\ UNCHANGED <<parser, server, qdrant, pending>>

CodeValues == {Undefined, String(<<>>), String(Chars("a")), String(Chars("b"))}
CommentValues == {Undefined, String(Chars(" note "))}

SnippetAny == \E code \in CodeValues, comment \in CommentValues :
                 PostIndexSnippet(code, comment)

EmbeddedAny == \E k \in 1..MaxPending, failing \in {"none", "openai", "qdrant"},
                  apiStatus \in ApiStatuses :
                  SnippetEmbedded(k, failing, apiStatus)

NextSnippets == SnippetAny \/ EmbeddedAny \/ Tick

\* requests to /index-snippet alone
InitSnippets == InitWith("server", 0)
SpecSnippets == InitSnippets /\ [][NextSnippets]_vars

-----------------------------------------------------------------------------
(* index.js: the handler of /generate *)

\* JSON values: the elements of an array are null, a number or an object
\* with or without a property action
JsonNull == [kind |-> "null", action |-> Undefined]
JsonNumber == [kind |-> "number", action |-> Undefined]
JsonObject(action) == [kind |-> "object", action |-> action]
JsonArray(items) == [kind |-> "array", items |-> items]
SyntaxError == [kind |-> "SyntaxError", items |-> <<>>]

\* texts the model can answer with, each with what JSON.parse makes of it
ModelOutputs ==
  { [text |-> <<>>, json |-> SyntaxError],
    [text |-> Chars("Insert x at line 1."), json |-> SyntaxError],
    [text |-> Chars("{\"action\": \"insert\", \"line\": 1, \"text\": \"x\"}"),
     json |-> [kind |-> "object", items |-> <<>>]],
    [text |-> Chars("[]"), json |-> JsonArray(<<>>)],
    [text |-> Chars("[null]"), json |-> JsonArray(<<JsonNull>>)],
    [text |-> Chars("[5]"), json |-> JsonArray(<<JsonNumber>>)],
    [text |-> Chars("[{\"line\": 1}]"), json |-> JsonArray(<<JsonObject(Undefined)>>)],
    [text |-> Chars("[{\"action\": \"\"}]"),
     json |-> JsonArray(<<JsonObject(String(<<>>))>>)],
    [text |-> Chars("[{\"action\": \"insert\", \"line\": 1, \"text\": \"x\"}]"),
     json |-> JsonArray(<<JsonObject(String(Chars("insert")))>>)],
    [text |-> Chars("[{\"action\": \"move\", \"line\": 1}]"),
     json |-> JsonArray(<<JsonObject(String(Chars("move")))>>)],
    [text |-> Chars("[{\"action\": 7}]"), json |-> JsonArray(<<JsonObject(Number)>>)],
    [text |-> Chars("[{\"action\": \"delete\", \"start_line\": 1, \"end_line\": 1}, 5]"),
     json |-> JsonArray(<<JsonObject(String(Chars("delete"))), JsonNumber>>)] }

\* JSON.parse(rawResult)
JSONParse(rawResult) == (CHOOSE o \in ModelOutputs : o.text = rawResult).json

\* a validation that looks at every element and at the name of its action
EveryElementIsAnAction(parsedResult) ==
  /\ parsedResult.kind = "array"
  /\ Len(parsedResult.items) > 0
  /\ \A k \in DOMAIN parsedResult.items :
       /\ parsedResult.items[k].kind = "object"
       /\ parsedResult.items[k].action \in
            {String(Chars("insert")), String(Chars("replace")), String(Chars("delete"))}

\* Array.isArray(parsedResult) && parsedResult.length > 0 && parsedResult[0].action
HasFirstAction(parsedResult) ==
  /\ parsedResult.kind = "array"
  /\ Len(parsedResult.items) > 0
  /\ ~Falsy(parsedResult.items[1].action)

\* the response to output_format structured_edit for the model's rawResult;
\* reading a property of null throws inside the try, as a text that is not
\* JSON does
StructuredEdit(rawResult, parsedResult) ==
  IF parsedResult.kind = "SyntaxError"
     \/ (parsedResult.kind = "array" /\ Len(parsedResult.items) > 0
         /\ parsedResult.items[1].kind = "null")
  THEN [NoRequest EXCEPT !.status = 500, !.rawResult = rawResult,
          !.error = "Failed to parse structured edit JSON from AI response."]
  ELSE IF HasFirstAction(parsedResult)
  THEN [NoRequest EXCEPT !.status = 200, !.rawResult = rawResult, !.body = parsedResult]
  ELSE [NoRequest EXCEPT !.status = 500, !.rawResult = rawResult,
          !.error = "Failed to generate valid structured edit JSON. Output was not a valid action array."]

\* the response of POST /generate once prompt has passed its check: the
\* requests for context before the completion only shape the messages, and
\* their failures are caught and logged
Completed(output_format, failing, apiStatus, rawResult) ==
  IF failing = "openai"
  THEN [NoRequest EXCEPT !.status = IF apiStatus # 0 THEN apiStatus ELSE 500,
                         !.error = "OpenAI API error.", !.failure = "openai"]
  ELSE IF failing = "other"
  THEN [NoRequest EXCEPT !.status = 500, !.failure = "",
          !.error = "Failed to generate AI response due to an internal server error."]
  ELSE IF output_format = String(Chars("structured_edit"))
  THEN StructuredEdit(rawResult, JSONParse(rawResult))
  ELSE [NoRequest EXCEPT !.status = 200, !.rawResult = rawResult,
                         !.body = [result |-> rawResult]]

\* POST /generate
Generate(prompt, output_format, failing, apiStatus, rawResult) ==
  /\ server' =
       [(IF Falsy(prompt) THEN BadRequest("/generate", "Prompt is required.")
         ELSE Completed(output_format, failing, apiStatus, rawResult))
        EXCEPT !.route = "/generate", !.phase = "responded",
               !.request = [prompt |-> prompt, output_format |-> output_format]]
  /\ UNCHANGED <<parser, services>>

PromptValues == {Undefined, String(<<>>), String(Chars("add x")), Number}
FormatValues == {Undefined, String(Chars("structured_edit")), String(Chars("text"))}

\* how the completion ends: the status of a failed request matters when it
\* fails, the text of the model when it does not
Completions ==
  {[failing |-> "none", apiStatus |-> 0, rawResult |-> o.text] : o \in ModelOutputs}
  \cup {[failing |-> "openai", apiStatus |-> a, rawResult |-> <<>>] : a \in ApiStatuses}
  \cup {[failing |-> "other", apiStatus |-> 0, rawResult |-> <<>>]}

GenerateAny == \E prompt \in PromptValues, output_format \in FormatValues,
                  c \in Completions :
                  Generate(prompt, output_format, c.failing, c.apiStatus, c.rawResult)

NextGenerate == GenerateAny

\* requests to /generate alone
InitGenerate == InitWith("server", 0)
SpecGenerate == InitGenerate /\ [][NextGenerate]_vars
-----------------------------------------------------------------------------
(* Properties of parseJavaScriptCode *)

\* the call has come to its end, by a return or by an exception
Done == pc = "done"

\* the revision in deep-fol-backend/codeParser.js is the one loaded
Original == impl = "codeParser.js"

\* the elements of one type, by their position in the array
OfType(type) == {k \in 1..Len(elements) : elements[k].type = type}

\* opening minus closing braces among the characters of t from o through j
Depth(t, o, j) ==
  Cardinality({k \in o..j : At(t, k) = "{"}) - Cardinality({k \in o..j : At(t, k) = "}"})

\* the offsets at which the braces opened from o on are all closed again
Closings(t, o) == {j \in o..(Len(t) - 1) : Depth(t, o, j) = 0}

\* the line of offset j, counting newlines
LineOf(t, j) == 1 + Cardinality({k \in 0..(j - 1) : At(t, k) = "\n"})

\* the class headers and the function headers of the file being parsed
ClassMatches == Matches("CLASS_REGEX", fileContent, 0)
FunctionMatches == Matches("FUNCTION_REGEX", fileContent, 0)

Ordered(records) ==
  \A k \in DOMAIN records : records[k].end_line >= records[k].start_line

\* C1: every call of the revision with import and export extraction ends
\* without an exception and gives back the aggregate of the three lists.
C1_CallReturnsAggregate ==
  (Done /\ impl = "part_000") => result.kind = "aggregate"

\* C2: a class header whose opening brace is never closed gives no class
\* element and no method element and raises nothing, and the scan goes on: a
\* later class header whose brace is closed is recorded, every method lies in
\* a recorded class of its name, and the function pass records its matches.
C2_UnclosedClassIsSkipped ==
  (Done /\ Original) =>
    /\ result.kind = "array"
    /\ result.structures = elements
    /\ \A k \in DOMAIN ClassMatches :
         IF Closings(fileContent, ClassMatches[k].end - 1) = {}
         THEN \A e \in OfType("class") : spans[e].start # ClassMatches[k].index
         ELSE \E e \in OfType("class") :
                 spans[e] = [start |-> ClassMatches[k].index,
                             finish |-> Least(Closings(fileContent,
                                                       ClassMatches[k].end - 1))]
    /\ \A e \in OfType("method") :
         \E c \in OfType("class") :
            /\ c < e
            /\ elements[c].name = elements[e].className
            /\ spans[c].start < spans[e].start
            /\ spans[e].finish < spans[c].finish
    /\ \A k \in DOMAIN FunctionMatches :
         (/\ Closings(fileContent, FunctionMatches[k].end - 1) # {}
          /\ ~isInsideClass(fileContent, elements, FunctionMatches[k].index))
         => \E e \in OfType("function") : spans[e].start = FunctionMatches[k].index

\* C2, reached: the file whose first class is never closed has been parsed,
\* and the class after it and the function are the two elements.
C2_UnclosedClassParsed ==
  /\ Done /\ Original
  /\ fileContent = UnclosedClass
  /\ Len(elements) = 2
  /\ elements[1].type = "class" /\ elements[1].name = Chars("B")
  /\ elements[2].type = "function" /\ elements[2].name = Chars("f")

\* C3: every record, a class, method or function element or an import or
\* export edge, has end_line >= start_line.
C3_EndLineNotBeforeStartLine ==
  /\ Ordered(elements) /\ Ordered(imports) /\ Ordered(exports)
  /\ Ordered(result.structures) /\ Ordered(result.imports) /\ Ordered(result.exports)

\* C3, reached: an export declaration that ends on a later line than it
\* starts on has been recorded.
C3_ExportOverTwoLines ==
  /\ Done
  /\ fileContent = Chars("export function f() {\n}")
  /\ Len(exports) = 1
  /\ exports[1].start_line = 1 /\ exports[1].end_line = 2

C5_MethodNeverAlsoFunction ==
  (Done /\ Original) =>
    /\ \A f \in OfType("function"), m \in OfType("method") :
         spans[f].finish # spans[m].finish
    /\ fileContent = MethodAndFunction =>
         /\ Cardinality(OfType("method")) = 1
         /\ \A m \in OfType("method") :
              elements[m].name = Chars("foo") /\ elements[m].className = Chars("C")
         /\ Cardinality(OfType("function")) = 1
         /\ \A f \in OfType("function") : elements[f].name = Chars("bar")

\* C5, reached: the class C, its method foo and the function bar are the
\* three elements of the example.
C5_MethodAndFunctionParsed ==
  /\ Done /\ Original
  /\ fileContent = MethodAndFunction
  /\ Len(elements) = 3
  /\ elements[1].type = "class"
  /\ elements[2].type = "method"
  /\ elements[3].type = "function"

\* C6: no function element starts within the character span of a recorded
\* class element.
C6_NoFunctionInsideClassSpan ==
  \A f \in OfType("function"), c \in OfType("class") :
     ~(spans[c].start < spans[f].start /\ spans[f].start < spans[c].finish)

\* C7: the call on `import { a, b as c } from 'mod'` gives back one import
\* record with source mod and the specifiers {a, a} and {b, c}, in order.
C7_NamedImportRecord ==
  (Done /\ impl = "part_000" /\ fileContent = NamedImport) =>
    /\ result.kind = "aggregate"
    /\ Len(result.imports) = 1
    /\ result.imports[1].source = Chars("mod")
    /\ result.imports[1].specifiers =
         <<[type |-> "named", imported |-> Chars("a"), local |-> Chars("a")],
           [type |-> "named", imported |-> Chars("b"), local |-> Chars("c")]>>

\* C8: the call on `export { x } from './y';` gives back one export record of
\* type re-export_named with source ./y and the one item {x, x}.
C8_NamedReExportRecord ==
  (Done /\ impl = "part_000" /\ fileContent = NamedReExport) =>
    /\ result.kind = "aggregate"
    /\ Len(result.exports) = 1
    /\ result.exports[1].type = "re-export_named"
    /\ result.exports[1].source = Chars("./y")
    /\ result.exports[1].exported_items = <<[name |-> Chars("x"), local |-> Chars("x")]>>

\* The lines of a documentation comment that make its summary: those before
\* the first line starting with @ and, when stopAtBlank, before the first
\* empty line that follows a line with text; empty lines are not collected.
RECURSIVE Collected(_, _, _, _)
Collected(ls, k, any, stopAtBlank) ==
  IF k > Len(ls) \/ At(ls[k], 0) = "@" THEN <<>>
  ELSE IF ls[k] = <<>>
  THEN (IF any /\ stopAtBlank THEN <<>> ELSE Collected(ls, k + 1, any, stopAtBlank))
  ELSE <<ls[k]>> \o Collected(ls, k + 1, TRUE, stopAtBlank)

RECURSIVE JoinSpaces(_)
JoinSpaces(ls) ==
  IF Len(ls) = 0 THEN <<>>
  ELSE IF Len(ls) = 1 THEN ls[1]
  ELSE ls[1] \o <<" ">> \o JoinSpaces(Tail(ls))

\* the function under the comment with the lines ls has the summary expected
DocSummaryIs(ls, expected) ==
  (Done /\ Original /\ fileContent = DocFile(ls)) =>
     Len(elements) = 1 /\ elements[1].summary = expected

\* C9 as stated: the summary of a documentation comment is its lines before
\* the first @ line, joined with single spaces.
C9_SummaryIsLinesBeforeFirstTag ==
  \A ls \in DocInputs : DocSummaryIs(ls, JoinSpaces(Collected(ls, 1, FALSE, FALSE)))

\* C9: the summary of a documentation comment is its lines before the first
\* @ line or the first empty line after a line with text, whichever comes
\* first, joined with single spaces, when that text is no longer than 100
\* characters; `/** Adds two numbers.\n * @param a */` gives
\* `Adds two numbers.`.
C9_SummaryStopsAtTagOrBlankLine ==
  /\ \A ls \in DocInputs :
       Len(JoinSpaces(Collected(ls, 1, FALSE, TRUE))) <= SummaryLimit
       => DocSummaryIs(ls, JoinSpaces(Collected(ls, 1, FALSE, TRUE)))
  /\ (Done /\ Original /\ fileContent = AddsTwoNumbers) =>
       Len(elements) = 1 /\ elements[1].summary = Chars("Adds two numbers.")

\* C9, reached: a comment with text, an empty line and more text has been
\* summarized by its first line alone.
C9_StoppedAtBlankLine ==
  /\ Done /\ Original
  /\ fileContent = DocFile(<<Chars("Adds."), <<>>, Chars("two")>>)
  /\ Len(elements) = 1
  /\ elements[1].summary = Chars("Adds.")

\* C10: a call with the text and the path of the call before it ends with
\* the same result.
C10_SameInputSameResult ==
  (/\ Done
   /\ prev.result.kind # "none"
   /\ prev.content = fileContent
   /\ prev.path = filePath)
  => result = prev.result

\* C10, reached: the second of two calls on the class C with method foo and
\* function bar has returned the same three elements as the first.
C10_ParsedTwice ==
  /\ Done /\ Original
  /\ prev.content = MethodAndFunction /\ fileContent = MethodAndFunction
  /\ prev.path = filePath
  /\ result.kind = "array"
  /\ Len(result.structures) = 3
  /\ result = prev.result

-----------------------------------------------------------------------------
(* Properties of parseJavaScriptCode: calls in succession, elements, edges *)

\* The class loop of codeParser.js run on t from lastIndex from, with nothing
\* kept from any call before: the elements it pushes.
RECURSIVE FromZeroClasses(_, _, _)
FromZeroClassPushes(t, p, m, closing) ==
  (IF closing = -1 THEN <<>>
   ELSE [k \in 1..Len(ClassPushes(t, p, m, closing)) |-> ClassPushes(t, p, m, closing)[k].el])
  \o FromZeroClasses(t, p, m.end)

FromZeroClassesOn(t, p, m) ==
  IF m.index = -1 THEN <<>>
  ELSE FromZeroClassPushes(t, p, m, findClosingBrace(t, m.end - 1))

FromZeroClasses(t, p, from) == FromZeroClassesOn(t, p, Exec("CLASS_REGEX", t, from))

\* the function loop of codeParser.js after the class loop left the elements cls
RECURSIVE FromZeroFunctions(_, _, _, _)
FromZeroFunctionPush(t, p, cls, m, closing) ==
  (IF isInsideClass(t, cls, m.index) \/ closing = -1 THEN <<>>
   ELSE <<FunctionElement(t, p, m, closing)>>)
  \o FromZeroFunctions(t, p, cls, m.end)

FromZeroFunctionsOn(t, p, cls, m) ==
  IF m.index = -1 THEN <<>>
  ELSE FromZeroFunctionPush(t, p, cls, m, findClosingBrace(t, m.end - 1))

FromZeroFunctions(t, p, cls, from) ==
  FromZeroFunctionsOn(t, p, cls, Exec("FUNCTION_REGEX", t, from))

FromZeroWith(t, p, cls) == cls \o FromZeroFunctions(t, p, cls, 0)

\* what a process that has parsed nothing before returns for the text t
FromZero(t, p) == FromZeroWith(t, p, FromZeroClasses(t, p, 0))

\* a loop over a module-level expression is entered with its lastIndex at 0
LoopEnteredAtZero ==
  /\ (pc' = "classes" /\ pc # "classes") =>
        lastIndex'["CLASS_REGEX"] = 0 /\ lastIndex'["METHOD_REGEX"] = 0
  /\ (pc' = "functions" /\ pc # "functions") => lastIndex'["FUNCTION_REGEX"] = 0

\* the call before the one at hand was made on another text and has ended
AfterAnotherText == prev.result.kind # "none" /\ prev.content # fileContent

\* C11: whatever calls were made before, on whatever texts and however they
\* ended, a call enters the class loop and the function loop with the
\* expression's lastIndex at 0, scans every class body from lastIndex 0, and
\* returns what a process that parsed nothing before returns for the same
\* text and path.
C11_ResultDependsOnlyOnInput ==
  /\ []((Done /\ Original) => result = ArrayResult(FromZero(fileContent, filePath)))
  /\ [][LoopEnteredAtZero]_vars

\* C11, reached: after a call on the file whose first class is never closed,
\* a call on the class C with method foo and function bar has returned.
C11_ParsedAfterUnclosedClass ==
  /\ Done /\ Original
  /\ prev.content = UnclosedClass
  /\ Len(prev.result.structures) = 2
  /\ fileContent = MethodAndFunction
  /\ Len(result.structures) = 3
  /\ result.structures = FromZero(MethodAndFunction, filePath)

\* className is set on the methods of els and on nothing else, and names a
\* class element of els
ClassNamesResolve(els) ==
  \A k \in DOMAIN els :
     /\ els[k].className # Null <=> els[k].type = "method"
     /\ els[k].type = "method" =>
          \E c \in DOMAIN els : els[c].type = "class" /\ els[c].name = els[k].className

\* C12: in the elements of every call, pushed so far or returned, className
\* is non-null exactly on the elements of type method, and the className of a
\* method is the name of a class element of the same call.
C12_ClassNameExactlyOnMethods ==
  /\ ClassNamesResolve(elements)
  /\ ClassNamesResolve(result.structures)

\* C12, reached: the class C with method foo and the function bar have been
\* returned, foo with className C, the other two with className null.
C12_MethodOfClassC ==
  /\ Done /\ Original
  /\ fileContent = MethodAndFunction
  /\ Len(result.structures) = 3
  /\ result.structures[1].type = "class" /\ result.structures[1].className = Null
  /\ result.structures[2].type = "method" /\ result.structures[2].className = Chars("C")
  /\ result.structures[3].type = "function" /\ result.structures[3].className = Null

\* the header that the function loop is about to take from exec
NextFunctionMatch == Exec("FUNCTION_REGEX", fileContent, lastIndex["FUNCTION_REGEX"])

\* an export record holds the header m of an `export default function`
\* statement: its raw text contains the header and those words, and it
\* starts on the header's line
HeldByExportRecord(m) ==
  \E k \in DOMAIN exports :
     /\ Includes(exports[k].raw, Substring(fileContent, m.index, m.end))
     /\ Includes(exports[k].raw, Chars("export default function"))
     /\ exports[k].start_line = LineOf(fileContent, m.index)

\* the function loop passes over the header it is at: nothing is pushed,
\* nothing is raised, and the loop goes on behind the header
PassedOver ==
  /\ pc' = "functions"
  /\ elements' = elements
  /\ result' = result
  /\ lastIndex'["FUNCTION_REGEX"] = NextFunctionMatch.end

ExportsParsed == impl = "part_000" /\ pc \in {"classes", "functions", "return", "done"}

\* the records of the two default passes, by their position in exports
DefaultRecords ==
  {k \in DOMAIN exports : exports[k].type \in {"default", "default_expression"}}

\* the offsets at which the expression called name matches the file
StartsOf(name) ==
  {Matches(name, fileContent, 0)[k].index : k \in DOMAIN Matches(name, fileContent, 0)}

\* the `export default` statements of the file, by the offsets at which one
\* of the two default expressions matches
DefaultStatements ==
  StartsOf("EXPORT_DEFAULT_IDENTIFIER_REGEX") \cup StartsOf("EXPORT_DEFAULT_EXPRESSION_REGEX")

\* C14: each `export default` statement gives at most one export record: the
\* default-expression pass skips what the default-identifier pass recorded,
\* whatever the length of the identifier and the whitespace before it.
C14_OneRecordPerDefaultExport ==
  ExportsParsed => Cardinality(DefaultRecords) <= Cardinality(DefaultStatements)

\* files of one `export default` statement followed at once by an anonymous
\* function, a class, an object or array literal, a `new` expression or a call
DefaultExpressionFiles ==
  {AnonymousFunction, AnonymousClass, ObjectLiteral, ArrayLiteral, NewExpression}
  \cup DefaultCalls

\* C15: `export default` followed at once by an anonymous function, a class,
\* an object or array literal, a call or a `new` expression is recorded with
\* type default_expression, and type default is given only to
\* `export default X;` with a lone identifier X.
C15_DefaultExpressionKinds ==
  ExportsParsed =>
    /\ fileContent \in DefaultExpressionFiles =>
         /\ \E k \in DOMAIN exports : exports[k].type = "default_expression"
         /\ \A k \in DOMAIN exports : exports[k].type # "default"
    /\ fileContent = Chars("export default foo;") =>
         /\ Len(exports) = 1
         /\ exports[1].type = "default"
         /\ exports[1].exported_items[1].local = Chars("foo")

\* the records of the declaration loop, in the order they were pushed
DeclarationRecords == SelectSeq(exports, LAMBDA e : e.type = "declaration")

\* the matches of the declaration loop on the file being parsed
DeclarationMatches == Matches("EXPORT_DECLARATION_REGEX", fileContent, 0)

\* the semicolons and newlines from the word `export` of the match m on
Boundaries(m) ==
  {j \in SkipWs(fileContent, m.index)..(Len(fileContent) - 1) :
     At(fileContent, j) \in {";", "\n"}}

\* the record rec ends at offset b and its raw text is the text of the match
\* m up to b, with the semicolon if b is one
EndsAt(rec, m, b) ==
  /\ rec.end_line = LineOf(fileContent, b)
  /\ Lit(rec.raw, 0, Substring(fileContent, m.index, b)) # -1
  /\ Len(rec.raw) <= b + 1 - m.index

\* the closing brace of the block after the declared name of m, or -1
BlockAfter(m) ==
  IF IndexOfFrom(fileContent, <<"{">>, m.end - 1) = -1 THEN -1
  ELSE findClosingBrace(fileContent, IndexOfFrom(fileContent, <<"{">>, m.end - 1))

\* the k-th declaration record ends where the claim C16 says
DeclarationEndsAtBoundary(k) ==
  IF DeclarationMatches[k].g1 \in {Chars("function"), Chars("class")}
  THEN BlockAfter(DeclarationMatches[k]) # -1 =>
         EndsAt(DeclarationRecords[k], DeclarationMatches[k],
                BlockAfter(DeclarationMatches[k]))
  ELSE Boundaries(DeclarationMatches[k]) # {} =>
         EndsAt(DeclarationRecords[k], DeclarationMatches[k],
                Least(Boundaries(DeclarationMatches[k])))

\* C16: an export declaration record of kind function or class ends at the
\* brace findClosingBrace matches for the block after the declared name; one
\* of kind const, let or var ends at the first semicolon or newline after the
\* declaration; the raw text covers the declaration up to that boundary.
C16_DeclarationEndsAtBoundary ==
  ExportsParsed =>
    /\ Len(DeclarationRecords) = Len(DeclarationMatches)
    /\ \A k \in DOMAIN DeclarationMatches : DeclarationEndsAtBoundary(k)

\* the specifier types of one import record
SpecifierTypes(edge) == {edge.specifiers[k].type : k \in DOMAIN edge.specifiers}

\* the call on the text t has given back one import record for each of its
\* statements, with the specifier types in types, in the order of the loops
ImportsOf(t, types) ==
  fileContent = t =>
    /\ result.kind = "aggregate"
    /\ Len(result.imports) = Len(types)
    /\ \A k \in DOMAIN types : SpecifierTypes(result.imports[k]) = {types[k]}

\* C17: an import statement at the start of a line, of the default,
\* namespace, named-list or side-effect form, gives exactly one import record
\* in the result, with the one specifier type of its form or with named
\* specifiers only, and no statement is recorded under two forms.
C17_OneEdgePerImportStatement ==
  (Done /\ impl = "part_000") =>
    /\ ImportsOf(DefaultImport, <<"default">>)
    /\ ImportsOf(NamespaceImport, <<"namespace">>)
    /\ ImportsOf(NamedImport, <<"named">>)
    /\ ImportsOf(SideEffectAndNamedImport, <<"named", "side-effect">>)

\* the texts the two modifier groups of METHOD_REGEX capture in the files
\* parsed here: static, then async, get or set, each with one space after it
Modifiers ==
  {s \o a : s \in {<<>>, Chars("static ")},
            a \in {<<>>, Chars("async "), Chars("get "), Chars("set ")}}

\* C18: the name of a method element has no generator marker and no
\* whitespace around it, and its signature is the modifiers, that name and
\* the parameter list in parentheses, so that no signature holds a `*`.
C18_MethodSignatureOfNormalizedName ==
  \A e \in OfType("method") :
     /\ ~Includes(elements[e].name, <<"*">>)
     /\ elements[e].name = Trim(elements[e].name)
     /\ \E mods \in Modifiers :
           Lit(elements[e].signature, 0, mods \o elements[e].name \o <<"(">>) # -1
     /\ elements[e].signature[Len(elements[e].signature)] = ")"
     /\ ~Includes(elements[e].signature, <<"*">>)

-----------------------------------------------------------------------------
(* Properties of the request handlers *)

\* the server has answered a request to the route
Answered(route) == server.route = route /\ server.phase = "responded"

\* C19: POST /index-file-structures with a non-empty string filePath and
\* content answers, when no embedding request and no upsert fails, with
\* success: true and indexed_count = the number of structures the parser
\* recovered + 1.
C19_IndexedCountIsStructuresPlusOne ==
  (/\ Answered("/index-file-structures")
   /\ ~NotAString(server.request.filePath)
   /\ ~NotAString(server.request.content)
   /\ server.failure \notin {"openai", "qdrant"})
  => /\ server.status = 200
     /\ server.success
     /\ server.indexed_count = Len(elements) + 1

\* the text is a decimal numeral of a positive integer
PositiveInteger(t) ==
  /\ Len(t) > 0
  /\ \A k \in DOMAIN t : t[k] \in Digits
  /\ \E k \in DOMAIN t : t[k] # "0"

\* C20: GET /find-symbols-by-name answers 400 and asks nothing of the
\* embedding and search services when name is missing or a limit is given
\* that is not a positive integer.
C20_BadRequestOnMissingNameOrInvalidLimit ==
  (/\ Answered("/find-symbols-by-name")
   /\ \/ server.request.name.type = "undefined"
      \/ /\ server.request.limit.type # "undefined"
         /\ ~PositiveInteger(server.request.limit.value))
  => /\ server.status = 400
     /\ server.embeddings = 0
     /\ server.searches = 0

-----------------------------------------------------------------------------
(* Properties of the helpers and of the stored points *)

\* the offsets of the opening braces of the file being parsed
OpenBraces == {i \in 0..(Len(fileContent) - 1) : At(fileContent, i) = "{"}

\* C23: for every opening brace of the text, findClosingBrace gives the
\* smallest later offset at which the depth counted from that brace is back at
\* zero, and -1 exactly when there is none; the offset it gives holds a
\* closing brace, and from the opening brace through it there are as many
\* opening as closing braces.
C23_ClosingBraceIsFirstReturnToZero ==
  \A i \in OpenBraces :
     IF Closings(fileContent, i) = {}
     THEN findClosingBrace(fileContent, i) = -1
     ELSE /\ findClosingBrace(fileContent, i) = Least(Closings(fileContent, i))
          /\ findClosingBrace(fileContent, i) > i
          /\ At(fileContent, findClosingBrace(fileContent, i)) = "}"
          /\ Depth(fileContent, i, findClosingBrace(fileContent, i)) = 0

\* C23, reached: the class of the example with a function inside a method has
\* been cut at the brace that closes it, past two inner closing braces.
C23_NestedBracesClosed ==
  /\ Done /\ Original
  /\ fileContent = NestedFunction
  /\ Len(elements) >= 1
  /\ spans[1].finish = Len(NestedFunction) - 1
  /\ spans[1].finish # IndexOf(fileContent, <<"}">>)

\* the lines of a run of line comments that make the summary when nothing is
\* cut: those before the first empty line that follows a line with text
RECURSIVE CollectedLines(_, _, _)
CollectedLines(ls, k, any) ==
  IF k > Len(ls) THEN <<>>
  ELSE IF ls[k] = <<>>
  THEN (IF any THEN <<>> ELSE CollectedLines(ls, k + 1, any))
  ELSE <<ls[k]>> \o CollectedLines(ls, k + 1, TRUE)

\* the function under the line comments ls has the summary expected
SlashSummaryIs(ls, expected) ==
  (Done /\ Original /\ fileContent = SlashFile(ls)) =>
     Len(elements) = 1 /\ elements[1].summary = expected

\* C24: a summary of more than 100 characters with a period in it ends at
\* its first period, and a comment, of either kind, whose collected text is
\* no longer than 100 characters is summarized by all of that text.
C24_LongSummaryEndsAtFirstPeriod ==
  /\ \A k \in DOMAIN elements :
       (/\ elements[k].summary # Null
        /\ Len(elements[k].summary) > SummaryLimit
        /\ Includes(elements[k].summary, <<".">>))
       => IndexOf(elements[k].summary, <<".">>) = Len(elements[k].summary) - 1
  /\ \A ls \in LongInputs :
       /\ Len(JoinSpaces(Collected(ls, 1, FALSE, TRUE))) <= SummaryLimit
          => DocSummaryIs(ls, JoinSpaces(Collected(ls, 1, FALSE, TRUE)))
       /\ Len(JoinSpaces(CollectedLines(ls, 1, FALSE))) <= SummaryLimit
          => SlashSummaryIs(ls, JoinSpaces(CollectedLines(ls, 1, FALSE)))

\* C24, reached: three comment lines of 60, 60 and 4 characters, with the
\* only period at the end of the last, have been summarized by their 126
\* characters.
C24_SummaryOfThreeLongLines ==
  /\ Done /\ Original
  /\ fileContent = DocFile(<<SixtyLetters, SixtyLetters, Chars("End.")>>)
  /\ Len(elements) = 1
  /\ Len(elements[1].summary) = 126
  /\ IndexOf(elements[1].summary, <<".">>) = 125

\* C25: the summary of a run of line comments is made of its lines before
\* the first line that begins with @ after its marker (or before the empty
\* line that ends it), as the summary of a documentation comment is.
C25_LineCommentsStopAtTag ==
  \A ls \in DocInputs :
     Len(JoinSpaces(Collected(ls, 1, FALSE, TRUE))) <= SummaryLimit
     => SlashSummaryIs(ls, JoinSpaces(Collected(ls, 1, FALSE, TRUE)))

\* the class element in whose iteration the element at position e was pushed
ClassBefore(e) ==
  CHOOSE c \in OfType("class") : c < e /\ \A d \in OfType("class") : d < e => d <= c

\* the method headers in the body of the class matched by m and closed at
\* closing, with offsets in that body
MethodMatches(m, closing) ==
  Matches("METHOD_REGEX", Substring(fileContent, m.end, closing), 0)

\* C27: the opening brace of every method header in the body of a recorded
\* class has its closing brace, before the closing brace of the class; every
\* method element lies strictly inside the class element it was found in, by
\* offsets and hence by lines.
C27_MethodSpanInsideClassSpan ==
  Original =>
    /\ \A k \in DOMAIN ClassMatches :
         \A closing \in {findClosingBrace(fileContent, ClassMatches[k].end - 1)} \ {-1} :
            \A j \in DOMAIN MethodMatches(ClassMatches[k], closing) :
               /\ findClosingBrace(fileContent,
                    ClassMatches[k].end + MethodMatches(ClassMatches[k], closing)[j].end - 1)
                  # -1
               /\ findClosingBrace(fileContent,
                    ClassMatches[k].end + MethodMatches(ClassMatches[k], closing)[j].end - 1)
                  < closing
    /\ \A e \in OfType("method") :
         /\ \E c \in OfType("class") : c < e
         /\ elements[ClassBefore(e)].name = elements[e].className
         /\ spans[ClassBefore(e)].start < spans[e].start
         /\ spans[e].finish < spans[ClassBefore(e)].finish
         /\ elements[ClassBefore(e)].start_line <= elements[e].start_line
         /\ elements[e].end_line <= elements[ClassBefore(e)].end_line

\* C27, reached: the method m, with a function inside it, has been recorded
\* inside its class A, ending on line 4 of the class's lines 1 to 5.
C27_MethodInsideClassA ==
  /\ Done /\ Original
  /\ fileContent = NestedFunction
  /\ Len(elements) >= 2
  /\ elements[1].type = "class"
  /\ elements[2].type = "method"
  /\ spans[1].start < spans[2].start /\ spans[2].finish < spans[1].finish
  /\ elements[1].start_line = 1 /\ elements[1].end_line = 5
  /\ elements[2].end_line = 4

\* C28: every method element starts at the depth of the members of its
\* class, one opening brace - that of the class - being open where it starts,
\* so that no line inside a method body, such as `if (a) {`, is a method.
C28_MethodsAreDirectMembers ==
  Original =>
    \A e \in OfType("method") :
       /\ elements[e].name \notin {Chars("if"), Chars("for"), Chars("while")}
       /\ \E k \in DOMAIN ClassMatches :
             /\ ClassMatches[k].index = spans[ClassBefore(e)].start
             /\ Depth(fileContent, ClassMatches[k].end - 1, spans[e].start - 1) = 1

\* C29, for the structural elements: start_line is the line of the first
\* character of the element's text that is not white space, blank lines
\* before the declaration or not, and an element whose text from there on
\* holds no newline has end_line = start_line.
C29_StartLineOfFirstCharacter ==
  Original =>
    \A e \in DOMAIN elements :
       /\ elements[e].start_line = LineOf(fileContent, SkipWs(fileContent, spans[e].start))
       /\ ~Includes(Trim(elements[e].code_snippet), <<"\n">>)
          => elements[e].end_line = elements[e].start_line

\* C30: no two elements of one parse have the same file path, type, class
\* name, name and start_line, the parts of which their point ids are made.
C30_ElementKeysAreDistinct ==
  Original =>
    \A i, j \in DOMAIN elements :
       i # j => StructurePoint(elements[i]).id # StructurePoint(elements[j]).id

\* the file of the path has been stored by /index-file-structures
Indexed(path) == \E p \in qdrant : p.id = <<"filemeta", path>>

SnippetStored ==
  /\ Len(pending') < Len(pending)
  /\ server'.route = "/index-snippet"
  /\ server'.success

\* C26: a successful request to /index-snippet stores its snippet under an id
\* that no stored snippet has: every point stored before is still stored
\* afterwards, and there is one point more.
C26_SnippetNeverOverwritten ==
  [][SnippetStored =>
       /\ qdrant \subseteq qdrant'
       /\ Cardinality(qdrant') = Cardinality(qdrant) + 1]_vars

\* the request answered was one for a structured edit
StructuredEditAsked ==
  /\ Answered("/generate")
  /\ ~Falsy(server.request.prompt)
  /\ server.request.output_format = String(Chars("structured_edit"))

\* C22: a response 200 to a request for a structured edit is a non-empty
\* array of objects whose action is insert, replace or delete, and a text of
\* the model that is no such array is answered with 500.
C22_StructuredEditIsActionArray ==
  StructuredEditAsked =>
    /\ server.status = 200 => EveryElementIsAnAction(server.body)
    /\ (server.failure = "none" /\ ~EveryElementIsAnAction(JSONParse(server.rawResult)))
       => server.status = 500
====
